---------------------------- MODULE Spec2Model ----------------------------
(***************************************************************************)
(* A model of the interactive panel of the knowhere desktop GUI:           *)
(*   - the SQL editor's completion provider, its alias parser and its      *)
(*     schema cache (gui/src/components/Editor/SqlEditor.tsx),             *)
(*   - the results table (components/Results/ResultsTable.tsx).            *)
(* Texts are TLA+ strings; the regular expressions of the source are       *)
(* evaluated character by character, with 1-based positions.               *)
(***************************************************************************)
EXTENDS Integers, Sequences, FiniteSets, TLC

VARIABLES
    \* ---- SqlEditor: props, refs, the monaco registry, the module-level cache
    tables,               \* prop `tables` of the last render
    mounted,              \* the SqlEditor component is mounted
    monacoRef,            \* monacoRef.current is set (handleMount has run)
    completionDisposable, \* completionDisposable.current: 0 (null) or a registration id
    hasCleanup,           \* the last run of the effect returned its cleanup function
    activeProviders,      \* registrations monaco holds that are not disposed
    closureTables,        \* active registration -> the `tables` its closure captured
    nextProvider,         \* next registration id
    schemaCache,          \* module-level schemaCache: table name -> columns
    inflight,             \* provideCompletionItems calls suspended at `await getSchema`
    nextReq,              \* next request id
    fetchCalls,           \* number of getSchema invocations so far
    lastDone,             \* the provideCompletionItems call that resolved last
    \* ---- parseTableAliases on its own
    sql,                  \* the text handed to parseTableAliases
    aliasDone,            \* parseTableAliases has returned
    aliasResult,          \* what it returned
    \* ---- ResultsTable
    isLoading, error, result,  \* props of the last render
    rendered,             \* which of the five returns the last render took
    defaultColumnWidths,  \* the memo of the last render (a sequence, one per column)
    columnWidthOverrides, \* state: column index (from 0) -> width
    resizing,             \* state: {index, startX, startWidth} or null
    overrideShape,        \* history: column index -> the column count of the result
                          \* on display when the override of that index was stored
    headerScrollLeft,     \* headerScrollRef.current.scrollLeft
    bodyScrollLeft,       \* parentRef.current.scrollLeft
    scrollPending,        \* the body was scrolled and its scroll event is not yet dispatched
    \* ---- App: the split between the editor pane and the results pane
    editorHeight,         \* state: height of the editor pane, in percent
    isDragging,           \* state: the divider is being dragged
    \* ---- App: queries and loads
    query,                \* state: the query text (the editor's `value`)
    status,               \* state: 'idle' | 'running' | 'success' | 'error'
    loadingPath,          \* state: a file or folder is being loaded
    runAction,            \* the handleExecute closure the editor's run-query action
                          \* calls: the `query` and `isExecuting` it captured, or none
    executions,           \* handleExecute calls suspended at `await executeSql`
    nextExecution,        \* next execution id
    lastCall,             \* the last invocation of executeSql: its argument and
                          \* the query text at that moment
    opens,                \* open handlers suspended at an await
    nextOpen,             \* next open id
    \* ---- Sidebar
    expandedState,        \* state: table name -> {expanded, columns, loading}
    schemaFetches,        \* toggleTable calls suspended at `await getSchema`
    nextFetch             \* next fetch id

editorVars == <<tables, mounted, monacoRef, completionDisposable, hasCleanup,
                activeProviders, closureTables, nextProvider, schemaCache,
                inflight, nextReq, fetchCalls, lastDone>>
aliasVars  == <<sql, aliasDone, aliasResult>>
gridVars   == <<isLoading, error, result, rendered, defaultColumnWidths,
                columnWidthOverrides, resizing, overrideShape,
                headerScrollLeft, bodyScrollLeft, scrollPending>>
splitVars  == <<editorHeight, isDragging>>
appVars    == <<query, status, loadingPath, runAction, executions, nextExecution,
                lastCall, opens, nextOpen>>
sidebarVars == <<expandedState, schemaFetches, nextFetch>>
vars       == <<editorVars, aliasVars, gridVars, splitVars, appVars, sidebarVars>>

(***************************************************************************)
(* Strings: character classes of the regular expressions, toUpperCase and  *)
(* toLowerCase.                                                            *)
(***************************************************************************)
LowerLetters == "abcdefghijklmnopqrstuvwxyz"
UpperLetters == "ABCDEFGHIJKLMNOPQRSTUVWXYZ"
DigitChars   == "0123456789"

Ch(s, i) == SubSeq(s, i, i)
CharsOf(s) == {Ch(s, i) : i \in 1..Len(s)}

\* \w
WordChars == CharsOf(LowerLetters) \cup CharsOf(UpperLetters) \cup CharsOf(DigitChars) \cup {"_"}
\* \s (the whitespace the modelled texts contain)
SpaceChars == {" ", "\n", "\t"}
\* ["']
QuoteChars == {"\"", "'"}

UpperOfChar == [c \in CharsOf(LowerLetters) |->
                  Ch(UpperLetters, CHOOSE i \in 1..Len(LowerLetters) : Ch(LowerLetters, i) = c)]
LowerOfChar == [c \in CharsOf(UpperLetters) |->
                  Ch(LowerLetters, CHOOSE i \in 1..Len(UpperLetters) : Ch(UpperLetters, i) = c)]

UpperChar(c) == IF c \in DOMAIN UpperOfChar THEN UpperOfChar[c] ELSE c
LowerChar(c) == IF c \in DOMAIN LowerOfChar THEN LowerOfChar[c] ELSE c

\* F applied to the value of x: x is evaluated once, whatever the number of
\* times F uses its parameter (a `const` binding of the source).
With(x, F(_)) == CHOOSE r \in {F(v) : v \in {x}} : TRUE

RECURSIVE UpperFrom(_, _)
UpperFrom(s, i) ==
    IF i > Len(s) THEN "" ELSE UpperChar(Ch(s, i)) \o UpperFrom(s, i + 1)

RECURSIVE LowerFrom(_, _)
LowerFrom(s, i) ==
    IF i > Len(s) THEN "" ELSE LowerChar(Ch(s, i)) \o LowerFrom(s, i + 1)

toUpperCase(s) == With(s, LAMBDA v : UpperFrom(v, 1))
toLowerCase(s) == With(s, LAMBDA v : LowerFrom(v, 1))

\* First position >= i whose character is not in class cs (Len(s)+1 if none):
\* the end of a greedy cs+ or cs* starting at i.
RECURSIVE RunEnd(_, _, _)
RunEnd(s, i, cs) ==
    IF i <= Len(s) /\ Ch(s, i) \in cs THEN RunEnd(s, i + 1, cs) ELSE i

\* The literal kw (upper case) occurs at position i, compared case-insensitively
\* (flag i).
LitAt(s, i, kw) ==
    /\ i + Len(kw) - 1 <= Len(s)
    /\ \A j \in 1..Len(kw) : UpperChar(Ch(s, i + j - 1)) = Ch(kw, j)

\* ["']? at position i: the position after it.
OptQuote(s, i) == IF i <= Len(s) /\ Ch(s, i) \in QuoteChars THEN i + 1 ELSE i

(***************************************************************************)
(* SqlEditor.tsx: SQL_KEYWORDS and parseTableAliases.                      *)
(***************************************************************************)
SQL_KEYWORDS == <<
    "SELECT", "FROM", "WHERE", "AND", "OR", "NOT", "IN", "LIKE", "BETWEEN",
    "ORDER BY", "GROUP BY", "HAVING", "LIMIT", "OFFSET", "AS",
    "JOIN", "LEFT JOIN", "RIGHT JOIN", "INNER JOIN", "OUTER JOIN", "CROSS JOIN",
    "ON", "USING", "UNION", "UNION ALL", "EXCEPT", "INTERSECT",
    "INSERT INTO", "VALUES", "UPDATE", "SET", "DELETE FROM",
    "CREATE TABLE", "DROP TABLE", "ALTER TABLE", "ADD", "COLUMN",
    "DISTINCT", "ALL", "NULL", "IS NULL", "IS NOT NULL",
    "ASC", "DESC", "CASE", "WHEN", "THEN", "ELSE", "END",
    "COUNT", "SUM", "AVG", "MIN", "MAX", "COALESCE", "CAST" >>

\* { k.toUpperCase() : k in SQL_KEYWORDS }
KeywordsUpper == {toUpperCase(SQL_KEYWORDS[i]) : i \in 1..Len(SQL_KEYWORDS)}

\* SQL_KEYWORDS.some(k => k.toUpperCase() === alias.toUpperCase())
IsKeyword(alias) == toUpperCase(alias) \in KeywordsUpper

NoMatch == [ok |-> FALSE, table |-> "", alias |-> "", end |-> 0]

\* The common head of both patterns at position i:
\*   (?:FROM|JOIN)\s+["']?(\w+)["']?\s+
\* gives the table's span and the position after the second \s+ (0: no match).
ClauseHead(s, i) ==
    LET p1 == i + 4
        p2 == RunEnd(s, p1, SpaceChars)
        p3 == OptQuote(s, p2)
        p4 == RunEnd(s, p3, WordChars)
        p5 == OptQuote(s, p4)
        p6 == RunEnd(s, p5, SpaceChars)
    IN  IF /\ (LitAt(s, i, "FROM") \/ LitAt(s, i, "JOIN"))
           /\ p2 > p1 /\ p4 > p3 /\ p6 > p5
        THEN [ok |-> TRUE, table |-> SubSeq(s, p3, p4 - 1), next |-> p6]
        ELSE [ok |-> FALSE, table |-> "", next |-> 0]

\* ["']?(\w+)["']? at position i: the alias and the position after it.
AliasAt(s, i) ==
    LET a1 == OptQuote(s, i)
        a2 == RunEnd(s, a1, WordChars)
    IN  IF a2 > a1
        THEN [ok |-> TRUE, alias |-> SubSeq(s, a1, a2 - 1), wordEnd |-> a2,
              end |-> OptQuote(s, a2)]
        ELSE [ok |-> FALSE, alias |-> "", wordEnd |-> 0, end |-> 0]

\* patterns[0] anchored at i:
\*   /(?:FROM|JOIN)\s+["']?(\w+)["']?\s+(?:AS\s+)?["']?(\w+)["']?/gi
\* The optional group (?:AS\s+)? is tried first; when nothing can follow it the
\* engine backtracks and takes the word AS itself as the alias.
Pattern0At(s, i) ==
    LET h  == ClauseHead(s, i)
        s1 == h.next + 2
        s2 == RunEnd(s, s1, SpaceChars)
        withAs == IF LitAt(s, h.next, "AS") /\ s2 > s1
                  THEN AliasAt(s, s2)
                  ELSE [ok |-> FALSE, alias |-> "", wordEnd |-> 0, end |-> 0]
        a  == IF withAs.ok THEN withAs ELSE AliasAt(s, h.next)
    IN  IF h.ok /\ a.ok
        THEN [ok |-> TRUE, table |-> h.table, alias |-> a.alias, end |-> a.end]
        ELSE NoMatch

\* The keywords of the trailing group of patterns[1], in the order of the
\* alternation.
BoundaryWords == <<"ON", "WHERE", "LEFT", "RIGHT", "INNER", "OUTER", "CROSS",
                   "JOIN", "ORDER", "GROUP", "LIMIT">>

\* patterns[1] anchored at i:
\*   /(?:FROM|JOIN)\s+["']?(\w+)["']?\s+["']?(\w+)["']?
\*    (?:\s+(?:ON|WHERE|LEFT|RIGHT|INNER|OUTER|CROSS|JOIN|ORDER|GROUP|LIMIT|$))/gi
\* After the alias a run of whitespace must lead to one of the words (no word
\* boundary is required after it) or to the end of the text.
Pattern1At(s, i) ==
    LET h  == ClauseHead(s, i)
        a  == AliasAt(s, h.next)
        b1 == RunEnd(s, a.end, SpaceChars)
        hit == {k \in 1..Len(BoundaryWords) : LitAt(s, b1, BoundaryWords[k])}
        first == CHOOSE k \in hit : \A j \in hit : k <= j
    IN  IF h.ok /\ a.ok /\ b1 > a.end /\ (hit # {} \/ b1 = Len(s) + 1)
        THEN [ok |-> TRUE, table |-> h.table, alias |-> a.alias,
              end |-> IF hit # {} THEN b1 + Len(BoundaryWords[first]) ELSE b1]
        ELSE NoMatch

PatternAt(p, s, i) == IF p = 0 THEN Pattern0At(s, i) ELSE Pattern1At(s, i)

\* pattern.exec(sql) with pattern.lastIndex = from - 1: the leftmost match that
\* starts at from or later.
Exec(p, s, from) ==
    With({i \in from..Len(s) : PatternAt(p, s, i).ok}, LAMBDA hits :
        IF hits = {} THEN NoMatch
        ELSE PatternAt(p, s, CHOOSE i \in hits : \A j \in hits : i <= j))

\* while ((match = pattern.exec(sql)) !== null): the matches in text order, each
\* search resuming where the previous match ended.
RECURSIVE MatchAll(_, _, _)
MatchAll(p, s, from) ==
    With(Exec(p, s, from),
         LAMBDA m : IF m.ok THEN <<m>> \o MatchAll(p, s, m.end) ELSE <<>>)

EmptyAliases == [k \in {} |-> ""]

\* if (alias && !SQL_KEYWORDS.some(...)) aliases[alias.toLowerCase()] = tableName
AssignAlias(aliases, m) ==
    IF m.alias # "" /\ ~IsKeyword(m.alias)
    THEN With(toLowerCase(m.alias),
              LAMBDA key : [k \in DOMAIN aliases \cup {key} |->
                               IF k = key THEN m.table ELSE aliases[k]])
    ELSE aliases

RECURSIVE AssignAll(_, _)
AssignAll(aliases, ms) ==
    IF ms = <<>> THEN aliases
    ELSE With(AssignAlias(aliases, Head(ms)), LAMBDA a : AssignAll(a, Tail(ms)))

\* The two patterns taken in the opposite order.
patternsReversed == <<1, 0>>

\* const patterns = [ /...(?:AS\s+)?.../gi, /...(?:\s+(?:ON|...|$))/gi ]
patterns == <<0, 1>>

\* for (const pattern of patterns) { while (...) {...} }
RECURSIVE RunPatterns(_, _, _)
RunPatterns(ps, s, aliases) ==
    IF ps = <<>> THEN aliases
    ELSE With(MatchAll(Head(ps), s, 1),
              LAMBDA ms : With(AssignAll(aliases, ms),
                               LAMBDA a : RunPatterns(Tail(ps), s, a)))

parseTableAliases(sql_) == With(sql_, LAMBDA s : RunPatterns(patterns, s, EmptyAliases))

(***************************************************************************)
(* SqlEditor.tsx: the completion provider (provideCompletionItems).        *)
(***************************************************************************)
\* Last position <= i from which s[j..i] lies in class cs (i + 1 if s[i] does
\* not): the start of the run of cs that ends at i.
RECURSIVE RunStart(_, _, _)
RunStart(s, i, cs) ==
    IF i >= 1 /\ Ch(s, i) \in cs THEN RunStart(s, i - 1, cs) ELSE i + 1

\* model.getLineContent(lineNumber): the text is split at line feeds.
RECURSIVE LinesOf(_)
LinesOf(s) ==
    LET e == RunEnd(s, 1, (WordChars \cup QuoteChars \cup {" ", "\t", ".", ",", "*", "(", ")", "="}))
    IN  IF e > Len(s) THEN <<s>>
        ELSE <<SubSeq(s, 1, e - 1)>> \o LinesOf(SubSeq(s, e + 1, Len(s)))

getLineContent(fullText, lineNumber) == LinesOf(fullText)[lineNumber]

\* model.getWordUntilPosition(position): the part of the word under the cursor
\* that lies before it; an empty word spans [column, column].
getWordUntilPosition(lineText, column) ==
    LET b == RunStart(lineText, column - 1, WordChars)
    IN  [word |-> SubSeq(lineText, b, column - 1), startColumn |-> b, endColumn |-> column]

\* textBeforeCursor.match(/(\w+)\.\s*$/): the text ends in a word, a dot and
\* optional whitespace; prefix is group 1.
\* A variant that wants the dot to be the last character.
dotMatchAtEnd(textBeforeCursor) ==
    LET d == Len(textBeforeCursor)
        w == RunStart(textBeforeCursor, d - 1, WordChars)
    IN  IF d >= 1 /\ Ch(textBeforeCursor, d) = "." /\ w <= d - 1
        THEN [ok |-> TRUE, prefix |-> SubSeq(textBeforeCursor, w, d - 1)]
        ELSE [ok |-> FALSE, prefix |-> ""]

dotMatch(textBeforeCursor) ==
    LET d == RunStart(textBeforeCursor, Len(textBeforeCursor), SpaceChars) - 1
        w == RunStart(textBeforeCursor, d - 1, WordChars)
    IN  IF d >= 1 /\ Ch(textBeforeCursor, d) = "." /\ w <= d - 1
        THEN [ok |-> TRUE, prefix |-> SubSeq(textBeforeCursor, w, d - 1)]
        ELSE [ok |-> FALSE, prefix |-> ""]

\* /\b(?:FROM|JOIN)\s+\w*$/i.test(textBeforeCursor)
afterFromJoin(textBeforeCursor) ==
    LET w == RunStart(textBeforeCursor, Len(textBeforeCursor), WordChars)
        g == RunStart(textBeforeCursor, w - 1, SpaceChars)
        k == g - 4
    IN  /\ g <= w - 1
        /\ k >= 1
        /\ (LitAt(textBeforeCursor, k, "FROM") \/ LitAt(textBeforeCursor, k, "JOIN"))
        /\ (k = 1 \/ Ch(textBeforeCursor, k - 1) \notin WordChars)

\* tables.find(t => t.toLowerCase() === prefix); "" stands for undefined.
FindTable(tbls, prefix) ==
    LET hit == {i \in 1..Len(tbls) : toLowerCase(tbls[i]) = prefix}
    IN  IF hit = {} THEN "" ELSE tbls[CHOOSE i \in hit : \A j \in hit : i <= j]

\* What stands for the two values a plain object inherits under an
\* all-lower-case name: the function Object and the object Object.prototype
\* (each written as the property key it turns into).
ObjectFunction  == "function Object() { [native code] }"
ObjectPrototype == "[object Object]"

\* obj[key] of an object made by {}: its own property, else what it inherits
\* from Object.prototype; "" stands for undefined. (prefix is lower-cased, so
\* of the inherited names only `constructor` and `__proto__` can be asked for.)
GetProperty(obj, key) ==
    IF key \in DOMAIN obj THEN obj[key]
    ELSE IF key = "constructor" THEN ObjectFunction
    ELSE IF key = "__proto__" THEN ObjectPrototype
    ELSE ""

\* let tableName = aliases[prefix] || tables.find(...)
ResolveTable(fullText, prefix, tbls) ==
    With(GetProperty(parseTableAliases(fullText), prefix), LAMBDA aliased :
        IF aliased # "" THEN aliased ELSE FindTable(tbls, prefix))

\* A variant that puts the column's name where its data type belongs.
FieldItemsNameAsDetail(columns, range) ==
    [i \in 1..Len(columns) |->
        [label |-> columns[i].name, kind |-> "Field", detail |-> columns[i].name,
         insertText |-> columns[i].name, range |-> range]]

\* for (const col of columns) suggestions.push({label, kind: Field, detail, insertText, range})
FieldItems(columns, range) ==
    [i \in 1..Len(columns) |->
        [label |-> columns[i].name, kind |-> "Field", detail |-> columns[i].data_type,
         insertText |-> columns[i].name, range |-> range]]

\* A variant that inserts the bare name.
TableItemsUnquoted(tbls, range) ==
    [i \in 1..Len(tbls) |->
        [label |-> tbls[i], kind |-> "Class", detail |-> "Table",
         insertText |-> tbls[i], range |-> range]]

\* for (const table of tables) suggestions.push({label, kind: Class, detail: 'Table', ...})
TableItems(tbls, range) ==
    [i \in 1..Len(tbls) |->
        [label |-> tbls[i], kind |-> "Class", detail |-> "Table",
         insertText |-> "\"" \o tbls[i] \o "\"", range |-> range]]

\* for (const kw of SQL_KEYWORDS) suggestions.push({label, kind: Keyword, insertText, range})
KeywordItems(range) ==
    [i \in 1..Len(SQL_KEYWORDS) |->
        [label |-> SQL_KEYWORDS[i], kind |-> "Keyword",
         insertText |-> SQL_KEYWORDS[i], range |-> range]]

\* A variant that never finds an entry.
CacheLookupAlwaysMiss(cache, tableName) == [hit |-> FALSE, columns |-> <<>>]

\* let columns = schemaCache[tableName]; if (!columns) ...: an entry, whatever
\* array it holds, is truthy.
CacheLookup(cache, tableName) ==
    IF tableName \in DOMAIN cache
    THEN [hit |-> TRUE, columns |-> cache[tableName]]
    ELSE [hit |-> FALSE, columns |-> <<>>]

\* provideCompletionItems up to its first suspension: either it returns
\* (step "return") or it reaches `await getSchema(tableName)` (step "await").
\* tbls is the `tables` the provider's closure holds.
provideCompletionItems(fullText, position, tbls, cache) ==
    With(getLineContent(fullText, position.lineNumber), LAMBDA lineText :
    With(getWordUntilPosition(lineText, position.column), LAMBDA word :
    With([startLineNumber |-> position.lineNumber,
          endLineNumber |-> position.lineNumber,
          startColumn |-> word.startColumn,
          endColumn |-> word.endColumn], LAMBDA range :
    With(SubSeq(lineText, 1, position.column - 1), LAMBDA textBeforeCursor :
    With(dotMatch(textBeforeCursor), LAMBDA dm :
        IF dm.ok
        THEN With(ResolveTable(fullText, toLowerCase(dm.prefix), tbls), LAMBDA tableName :
             With(CacheLookup(cache, tableName), LAMBDA cached :
                 IF tableName = ""
                 THEN [step |-> "return", source |-> "unresolved", tableName |-> "",
                       textBefore |-> textBeforeCursor,
                       columns |-> <<>>, suggestions |-> <<>>]
                 ELSE IF cached.hit
                 THEN [step |-> "return", source |-> "hit", tableName |-> tableName,
                       textBefore |-> textBeforeCursor,
                       columns |-> cached.columns,
                       suggestions |-> FieldItems(cached.columns, range)]
                 ELSE [step |-> "await", source |-> "miss", tableName |-> tableName,
                       textBefore |-> textBeforeCursor, range |-> range]))
        ELSE [step |-> "return", source |-> "nodot", tableName |-> "",
              textBefore |-> textBeforeCursor,
              columns |-> <<>>,
              suggestions |->
                  (IF afterFromJoin(textBeforeCursor) \/ Len(word.word) > 0
                   THEN TableItems(tbls, range) ELSE <<>>) \o KeywordItems(range)])))))

(***************************************************************************)
(* The editor session (specification Spec).                                *)
(***************************************************************************)
MaxRequests == 2        \* provideCompletionItems invocations in a run
MaxRegistrations == 2   \* registerCompletionItemProvider calls in a run

\* Values of the prop `tables`.
TableLists == {<<>>, <<"orders", "users">>}

\* Editor texts a completion is requested in.
Docs == {"SELECT o.\nFROM orders o",
         "x. users. "}

\* Every cursor position of a text.
Positions(doc) ==
    {pos \in [lineNumber : 1..Len(LinesOf(doc)), column : 1..(Len(doc) + 1)] :
        pos.column <= Len(LinesOf(doc)[pos.lineNumber]) + 1}

\* What getSchema may resolve with: two versions of a schema.
ColsA == <<[name |-> "id", data_type |-> "Int64"], [name |-> "total", data_type |-> "Float64"]>>
ColsB == <<[name |-> "id", data_type |-> "Utf8"]>>
SchemaVersions == {ColsA, ColsB}

NoRequest == [source |-> "none"]

AliasIdle == sql = "" /\ aliasDone = FALSE /\ aliasResult = EmptyAliases

\* The props App starts with: error and result are null.
NullError  == "null"
NullResult == [null |-> TRUE]

\* useState({}) and useState(null) of ResultsTable.
NoOverrides == [i \in {} |-> 0]
NullResizing == [null |-> TRUE]

GridIdle ==
    /\ isLoading = FALSE /\ error = NullError /\ result = NullResult
    /\ rendered = "no-result"
    /\ defaultColumnWidths = <<>>
    /\ columnWidthOverrides = NoOverrides
    /\ resizing = NullResizing
    /\ overrideShape = NoOverrides
    /\ headerScrollLeft = 0 /\ bodyScrollLeft = 0 /\ scrollPending = FALSE

\* A percentage that need not be whole: the fraction n/d in lowest terms
\* (n >= 0, d > 0).
RECURSIVE Gcd(_, _)
Gcd(a, b) == IF b = 0 THEN a ELSE Gcd(b, a % b)
Fraction(n, d) == [n |-> n \div Gcd(n, d), d |-> d \div Gcd(n, d)]

\* useState(40) and useState(false) of App.
SplitIdle == editorHeight = Fraction(40, 1) /\ isDragging = FALSE

\* The other state App starts with: useState('SELECT * FROM '),
\* useState('idle'), useState(false); nothing is in flight and the editor
\* has not called onMount.
NoAction == [none |-> TRUE]
NoCall == [none |-> TRUE]
AppIdle ==
    /\ query = "SELECT * FROM " /\ status = "idle" /\ loadingPath = FALSE
    /\ runAction = NoAction
    /\ executions = {} /\ nextExecution = 1 /\ lastCall = NoCall
    /\ opens = {} /\ nextOpen = 1

\* useState({}) of Sidebar; no getSchema call is in flight.
SidebarIdle ==
    /\ expandedState = [t \in {} |-> 0] /\ schemaFetches = {} /\ nextFetch = 1

\* After the first commit: the component is mounted and its effect has run
\* once, before the editor called onMount (monacoRef.current was null, so the
\* effect returned without registering and without a cleanup).
Init ==
    /\ tables \in TableLists
    /\ mounted = TRUE
    /\ monacoRef = FALSE
    /\ completionDisposable = 0
    /\ hasCleanup = FALSE
    /\ activeProviders = {}
    /\ closureTables = <<>>
    /\ nextProvider = 1
    /\ schemaCache = EmptyAliases
    /\ inflight = {}
    /\ nextReq = 1
    /\ fetchCalls = 0
    /\ lastDone = NoRequest
    /\ AliasIdle /\ GridIdle /\ SplitIdle /\ AppIdle /\ SidebarIdle

\* editor.addAction({id: 'run-query', ..., run: () => { onExecute(); }}):
\* onExecute is the handleExecute of the render that made this handleMount,
\* a closure over that render's `query` and `isExecuting`.
RunActionOf(q, executing) == [query |-> q, isExecuting |-> executing]

\* handleMount: editorRef.current = editor; monacoRef.current = monaco; the
\* run-query action is added. (The focus changes no state.)
handleMount ==
    /\ mounted /\ ~monacoRef
    /\ monacoRef' = TRUE
    /\ runAction' = RunActionOf(query, isLoading)
    /\ UNCHANGED <<tables, mounted, completionDisposable, hasCleanup, activeProviders,
                   closureTables, nextProvider, schemaCache, inflight, nextReq,
                   fetchCalls, lastDone, aliasVars, gridVars, splitVars,
                   query, status, loadingPath, executions, nextExecution,
                   lastCall, opens, nextOpen, sidebarVars>>

\* completionDisposable.current.dispose(), if the ref is set: the registry
\* without that registration (disposing twice changes nothing).
Disposed(registry) == registry \ {completionDisposable}

\* The registry after the cleanup of the previous run of the effect, if that
\* run returned one.
AfterCleanup == IF hasCleanup THEN Disposed(activeProviders) ELSE activeProviders

\* A render with a new `tables` array: the cleanup of the previous run of the
\* effect, then the effect. Without monaco the effect returns at once (and the
\* run has no cleanup); with it, the registration the ref holds is disposed, a
\* new provider closing over `tables` is registered and stored in the ref.
TablesEffect(newTables) ==
    /\ mounted
    /\ monacoRef => nextProvider <= MaxRegistrations
    /\ tables' = newTables
    /\ IF monacoRef
       THEN /\ activeProviders' = Disposed(AfterCleanup) \cup {nextProvider}
            /\ closureTables' = [q \in Disposed(AfterCleanup) \cup {nextProvider} |->
                                    IF q = nextProvider THEN newTables ELSE closureTables[q]]
            /\ completionDisposable' = nextProvider
            /\ nextProvider' = nextProvider + 1
            /\ hasCleanup' = TRUE
       ELSE /\ activeProviders' = AfterCleanup
            /\ closureTables' = [q \in AfterCleanup |-> closureTables[q]]
            /\ hasCleanup' = FALSE
            /\ UNCHANGED <<completionDisposable, nextProvider>>
    /\ UNCHANGED <<mounted, monacoRef, schemaCache, inflight, nextReq, fetchCalls,
                   lastDone>>

\* The same, with nothing else changing.
TablesChange(newTables) ==
    /\ TablesEffect(newTables)
    /\ UNCHANGED <<aliasVars, gridVars, splitVars, appVars, sidebarVars>>

\* Unmounting runs the cleanup of the last run of the effect.
Unmount ==
    /\ mounted
    /\ mounted' = FALSE
    /\ activeProviders' = AfterCleanup
    /\ closureTables' = [q \in AfterCleanup |-> closureTables[q]]
    /\ hasCleanup' = FALSE
    /\ UNCHANGED <<tables, monacoRef, completionDisposable, nextProvider,
                   schemaCache, inflight, nextReq, fetchCalls, lastDone,
                   aliasVars, gridVars, splitVars,
                   appVars, sidebarVars>>

\* The entry a table had in the cache before a step (kept with the request
\* that resolved, for the record of what the step overwrote).
NoEntry == [present |-> FALSE, columns |-> <<>>]
EntryOf(cache, tableName) ==
    IF tableName \in DOMAIN cache
    THEN [present |-> TRUE, columns |-> cache[tableName]]
    ELSE NoEntry

\* Another getSchema call for the same table is pending.
Overlaps(tableName) == \E r \in inflight : r.tableName = tableName

\* monaco calls provideCompletionItems of a registered provider. The call
\* either returns, or calls getSchema and is suspended.
Complete(p, doc, position) ==
    /\ p \in activeProviders
    /\ nextReq <= MaxRequests
    /\ \E c \in {provideCompletionItems(doc, position, closureTables[p], schemaCache)} :
           IF c.step = "return"
           THEN /\ lastDone' = [id |-> nextReq, source |-> c.source,
                                tableName |-> c.tableName, textBefore |-> c.textBefore,
                                columns |-> c.columns,
                                suggestions |-> c.suggestions,
                                overlapped |-> FALSE, prevEntry |-> NoEntry]
                /\ UNCHANGED <<inflight, fetchCalls>>
           ELSE /\ inflight' = inflight \cup
                        {[id |-> nextReq, tableName |-> c.tableName,
                          textBefore |-> c.textBefore, range |-> c.range,
                          overlapped |-> Overlaps(c.tableName)]}
                /\ fetchCalls' = fetchCalls + 1
                /\ UNCHANGED lastDone
    /\ nextReq' = nextReq + 1
    /\ UNCHANGED <<tables, mounted, monacoRef, completionDisposable, hasCleanup,
                   activeProviders, closureTables, nextProvider, schemaCache,
                   aliasVars, gridVars, splitVars,
                   appVars, sidebarVars>>

\* A variant that keeps the entry a table already has.
CacheWriteIfAbsent(cache, tableName, columns) ==
    [t \in DOMAIN cache \cup {tableName} |-> IF t \in DOMAIN cache THEN cache[t] ELSE columns]

\* A variant that drops the entries of the other tables.
CacheWriteAlone(cache, tableName, columns) == [t \in {tableName} |-> columns]

\* schemaCache[tableName] = columns
CacheWrite(cache, tableName, columns) ==
    [t \in DOMAIN cache \cup {tableName} |-> IF t = tableName THEN columns ELSE cache[t]]

\* A variant in which the catch block stores the empty column list.
CacheAfterRejectStoresEmpty(cache, tableName) ==
    [t \in DOMAIN cache \cup {tableName} |-> IF t = tableName THEN <<>> ELSE cache[t]]

\* catch (e) { columns = [] }: what the catch block leaves in the cache.
CacheAfterReject(cache, tableName) == cache

\* getSchema resolves: columns = await getSchema(tableName);
\* schemaCache[tableName] = columns; then the Field items are built and returned.
GetSchemaResolve(r, columns) ==
    /\ r \in inflight
    /\ inflight' = inflight \ {r}
    /\ schemaCache' = CacheWrite(schemaCache, r.tableName, columns)
    /\ lastDone' = [id |-> r.id, source |-> "fetched", tableName |-> r.tableName,
                    textBefore |-> r.textBefore,
                    columns |-> columns, suggestions |-> FieldItems(columns, r.range),
                    overlapped |-> r.overlapped,
                    prevEntry |-> EntryOf(schemaCache, r.tableName)]
    /\ UNCHANGED <<tables, mounted, monacoRef, completionDisposable, hasCleanup,
                   activeProviders, closureTables, nextProvider, nextReq, fetchCalls,
                   aliasVars, gridVars, splitVars,
                   appVars, sidebarVars>>

\* getSchema rejects: catch (e) { columns = [] }; no item is built.
GetSchemaReject(r) ==
    /\ r \in inflight
    /\ inflight' = inflight \ {r}
    /\ schemaCache' = CacheAfterReject(schemaCache, r.tableName)
    /\ lastDone' = [id |-> r.id, source |-> "rejected", tableName |-> r.tableName,
                    textBefore |-> r.textBefore,
                    columns |-> <<>>, suggestions |-> FieldItems(<<>>, r.range),
                    overlapped |-> r.overlapped,
                    prevEntry |-> EntryOf(schemaCache, r.tableName)]
    /\ UNCHANGED <<tables, mounted, monacoRef, completionDisposable, hasCleanup,
                   activeProviders, closureTables, nextProvider, nextReq, fetchCalls,
                   aliasVars, gridVars, splitVars,
                   appVars, sidebarVars>>

Next ==
    \/ handleMount
    \/ \E t \in TableLists : TablesChange(t)
    \/ Unmount
    \/ \E p \in activeProviders, doc \in Docs : \E position \in Positions(doc) :
            Complete(p, doc, position)
    \/ \E r \in inflight, columns \in SchemaVersions : GetSchemaResolve(r, columns)
    \/ \E r \in inflight : GetSchemaReject(r)

Spec == Init /\ [][Next]_vars

(***************************************************************************)
(* The completion provider on its own (specification SpecProvider): one    *)
(* provider is registered, closing over `tables`, and monaco asks it for   *)
(* completions at every position of a few texts.                           *)
(***************************************************************************)
ProviderDocs == {"SEL from \nxjoin \nJOIN\tus",
                 "u.\nFROM t u",
                 "t.constructor. "}

\* Values of the prop `tables`: none, or two tables, the second of which has
\* the name the second text uses as an alias of the first.
ProviderTableLists == {<<>>, <<"t", "u">>}

\* After handleMount and one run of the effect with monaco present.
ProviderInit ==
    /\ tables \in ProviderTableLists
    /\ mounted = TRUE
    /\ monacoRef = TRUE
    /\ completionDisposable = 1
    /\ hasCleanup = TRUE
    /\ activeProviders = {1}
    /\ closureTables = [q \in {1} |-> tables]
    /\ nextProvider = 2
    /\ schemaCache = EmptyAliases
    /\ inflight = {}
    /\ nextReq = 1
    /\ fetchCalls = 0
    /\ lastDone = NoRequest
    /\ AliasIdle /\ GridIdle /\ SplitIdle /\ AppIdle /\ SidebarIdle

ProviderNext ==
    \/ \E p \in activeProviders, doc \in ProviderDocs : \E position \in Positions(doc) :
            Complete(p, doc, position)
    \/ \E r \in inflight, columns \in SchemaVersions : GetSchemaResolve(r, columns)
    \/ \E r \in inflight : GetSchemaReject(r)

SpecProvider == ProviderInit /\ [][ProviderNext]_vars

(***************************************************************************)
(* parseTableAliases on its own (specification SpecAlias): a text is       *)
(* drawn, the function is applied.                                         *)
(***************************************************************************)
MaxClauses == 2

\* The pieces the texts are made of: a clause FROM/JOIN <table> with no alias,
\* with an alias, or with AS and an alias (clause words, AS and aliases in
\* mixed case), and two words that may follow a clause: ON, which SQL_KEYWORDS
\* holds, and ORDER, which it holds only inside "ORDER BY".
ClauseWords == {"FROM", "join"}
TableNames  == {"t1", "T2"}
AliasParts  == {"", " a", " B", " As B"}
TrailWords  == {"ON", "order"}
Pieces == {cw \o " " \o t \o a : cw \in ClauseWords, t \in TableNames, a \in AliasParts}
          \cup TrailWords

RECURSIVE JoinWords(_)
JoinWords(ws) ==
    IF ws = <<>> THEN ""
    ELSE IF Len(ws) = 1 THEN ws[1]
    ELSE ws[1] \o " " \o JoinWords(Tail(ws))

\* Up to MaxClauses pieces separated by single spaces, with or without a
\* trailing space.
AliasTexts ==
    {JoinWords(ws) \o (IF trail THEN " " ELSE "") :
        ws \in UNION {[1..n -> Pieces] : n \in 0..MaxClauses}, trail \in BOOLEAN}

EditorIdle ==
    /\ tables = <<>> /\ mounted = FALSE /\ monacoRef = FALSE
    /\ completionDisposable = 0 /\ hasCleanup = FALSE
    /\ activeProviders = {} /\ closureTables = <<>> /\ nextProvider = 1
    /\ schemaCache = EmptyAliases /\ inflight = {} /\ nextReq = 1
    /\ fetchCalls = 0 /\ lastDone = NoRequest

AliasInit ==
    /\ sql \in AliasTexts
    /\ aliasDone = FALSE
    /\ aliasResult = EmptyAliases
    /\ EditorIdle /\ GridIdle /\ SplitIdle /\ AppIdle /\ SidebarIdle

\* const aliases = parseTableAliases(fullText)
ResolveAliases ==
    /\ ~aliasDone
    /\ aliasDone' = TRUE
    /\ aliasResult' = parseTableAliases(sql)
    /\ UNCHANGED <<sql, editorVars, gridVars, splitVars,
                   appVars, sidebarVars>>

AliasNext == ResolveAliases

SpecAlias == AliasInit /\ [][AliasNext]_vars

(***************************************************************************)
(* ResultsTable (specification SpecResults): the parent renders the        *)
(* component with props (result, error, isLoading).                        *)
(***************************************************************************)
MaxRows == 3

\* error: string | null. The strings: the empty one and a message.
Errors == {NullError, "", "Error: table not found", "Error: syntax error"}

\* result: QueryResult | null. rows and row_count are separate fields of
\* QueryResult; nothing in the component ties one to the other.
\* A cell is string | number | boolean | null.
NullCell       == [t |-> "null"]
StringCell(s)  == [t |-> "string", v |-> s]
NumberCell(n)  == [t |-> "number", v |-> n]
BooleanCell(b) == [t |-> "boolean", v |-> b]

ColumnInfo(name, data_type) == [name |-> name, data_type |-> data_type]

RowsOf(n) == [i \in 1..n |-> <<StringCell("v")>>]
Results ==
    {NullResult} \cup
    {[columns |-> <<ColumnInfo("c", "Utf8")>>, rows |-> RowsOf(n), row_count |-> k] :
        n \in 0..MaxRows, k \in 0..MaxRows}

\* if (error): a string is truthy unless it is empty.
Truthy(e) == e # NullError /\ e # ""

\* A variant that tests the error before the loading flag.
ResultsTableErrorFirst(res, err, loading) ==
    IF Truthy(err) THEN "error"
    ELSE IF loading THEN "loading"
    ELSE IF res = NullResult THEN "no-result"
    ELSE IF Len(res.rows) = 0 THEN "empty-rows"
    ELSE "populated"

\* ResultsTable({result, error, isLoading}): which return the render takes.
ResultsTable(res, err, loading) ==
    IF loading THEN "loading"
    ELSE IF Truthy(err) THEN "error"
    ELSE IF res = NullResult THEN "no-result"
    ELSE IF Len(res.rows) = 0 THEN "empty-rows"
    ELSE "populated"

ResultsInit ==
    /\ GridIdle
    /\ EditorIdle /\ AliasIdle /\ SplitIdle /\ AppIdle /\ SidebarIdle

MathMax(a, b) == IF a >= b THEN a ELSE b
MathMin(a, b) == IF a <= b THEN a ELSE b

\* String(cellValue) of a cell that is not null. Numbers are the integers.
DigitStr(d) == SubSeq("0123456789", d + 1, d + 1)
RECURSIVE NaturalToString(_)
NaturalToString(n) ==
    IF n < 10 THEN DigitStr(n)
    ELSE NaturalToString(n \div 10) \o DigitStr(n % 10)
String(cellValue) ==
    CASE cellValue.t = "string"  -> cellValue.v
      [] cellValue.t = "number"  ->
            IF cellValue.v < 0 THEN "-" \o NaturalToString(-cellValue.v)
            ELSE NaturalToString(cellValue.v)
      [] cellValue.t = "boolean" -> IF cellValue.v THEN "true" ELSE "false"

\* cellValue === null ? 'NULL' : String(cellValue)
cellStr(cellValue) == IF cellValue.t = "null" THEN "NULL" ELSE String(cellValue)

\* A variant that samples every row.
SampleAll(rows) == rows

\* result.rows.slice(0, 100)
Sample(rows) == SubSeq(rows, 1, MathMin(100, Len(rows)))

\* The greatest element of a non-empty finite set of numbers.
Greatest(S) == CHOOSE m \in S : \A w \in S : w <= m

\* .reduce((max, row) => Math.max(max, cellStr.length * 8 + 24), 0) over the
\* sample: the greatest of 0 and the rows' cell widths. colIndex counts from 0.
maxContentWidth(sample, colIndex) ==
    Greatest({0} \cup {Len(cellStr(sample[k][colIndex + 1])) * 8 + 24 :
                          k \in 1..Len(sample)})

headerWidth(col) == Len(col.name) * 9 + 32

\* A variant without the floor.
ClampWidthNoFloor(hw, cw) == MathMin(MathMax(hw, cw), 500)

\* Math.min(Math.max(headerWidth, maxContentWidth, 100), 500)
ClampWidth(hw, cw) == MathMin(MathMax(MathMax(hw, cw), 100), 500)

\* The useMemo callback of defaultColumnWidths: [] without a result, else one
\* width per column. Position c of the sequence is column index c - 1.
defaultColumnWidthsOf(res) ==
    IF res = NullResult THEN <<>>
    ELSE [c \in 1..Len(res.columns) |->
            ClampWidth(headerWidth(res.columns[c]),
                       maxContentWidth(Sample(res.rows), c - 1))]

\* defaultColumnWidths.map((w, i) => columnWidthOverrides[i] ?? w)
columnWidthsOf(defaults, overrides) ==
    [c \in 1..Len(defaults) |->
        IF (c - 1) \in DOMAIN overrides THEN overrides[c - 1] ELSE defaults[c]]

columnWidths == columnWidthsOf(defaultColumnWidths, columnWidthOverrides)

\* One render of ResultsTable with new props. The hooks run before the
\* returns, so the memo is recomputed whichever return is taken; the state
\* (columnWidthOverrides, resizing) belongs to the component instance, which
\* App renders without a key, and is kept. The header and the body exist in
\* the populated return only: leaving it discards them and their offsets.
RenderResults(res, err, loading) ==
    /\ result' = res /\ error' = err /\ isLoading' = loading
    /\ rendered' = ResultsTable(res, err, loading)
    /\ defaultColumnWidths' = defaultColumnWidthsOf(res)
    /\ IF rendered = "populated" /\ ResultsTable(res, err, loading) = "populated"
       THEN UNCHANGED <<headerScrollLeft, bodyScrollLeft, scrollPending>>
       ELSE headerScrollLeft' = 0 /\ bodyScrollLeft' = 0 /\ scrollPending' = FALSE
    /\ UNCHANGED <<columnWidthOverrides, resizing, overrideShape>>

\* The same, with nothing else changing.
Render(res, err, loading) ==
    /\ RenderResults(res, err, loading)
    /\ UNCHANGED <<editorVars, aliasVars, splitVars, appVars, sidebarVars>>

ResultsNext == \E res \in Results, err \in Errors, loading \in BOOLEAN : Render(res, err, loading)

SpecResults == ResultsInit /\ [][ResultsNext]_vars

(***************************************************************************)
(* ResultsTable, column widths and the resize handlers (specification      *)
(* SpecGrid): renders with new props interleaved with the mouse events of  *)
(* the populated view.                                                     *)
(***************************************************************************)
LongRows == 101
MaxWidth == 520

LongText == "xxxxxxxxxxxxxxxxxxxxxxxxxxxxxxxxxxxxxxxxxxxxxxxxxxxxxxxxxxxxxxxxxxxxxx"

\* One column, one row whose cell has 12 characters.
ResultOneColumn ==
    [columns |-> <<ColumnInfo("id", "Utf8")>>,
     rows |-> <<<<StringCell("abcdefghijkl")>>>>, row_count |-> 1]

\* Two columns, cells of every kind.
ResultTwoColumns ==
    [columns |-> <<ColumnInfo("id", "Int64"),
                   ColumnInfo("customer_email_address", "Utf8")>>,
     rows |-> <<<<NumberCell(-12345), NullCell>>,
                <<NumberCell(7), BooleanCell(TRUE)>>>>,
     row_count |-> 2]

\* No rows.
ResultNoRows ==
    [columns |-> <<ColumnInfo("id", "Int64")>>, rows |-> <<>>, row_count |-> 0]

\* LongRows rows, all short but the one at position longAt.
ResultLong(longAt) ==
    [columns |-> <<ColumnInfo("name", "Utf8")>>,
     rows |-> [i \in 1..LongRows |->
                <<IF i = longAt THEN StringCell(LongText) ELSE StringCell("ab")>>],
     row_count |-> LongRows]

GridResults ==
    {NullResult, ResultOneColumn, ResultTwoColumns, ResultNoRows}
        \cup {ResultLong(longAt) : longAt \in {100, 101}}
GridErrors == {NullError, "Error: syntax error"}

\* e.clientX of the mouse events.
ClientXs == {100, 300}

\* A variant that starts from the estimated width, whatever the override.
StartSessionFromDefault(index, clientX) ==
    [index |-> index, startX |-> clientX, startWidth |-> defaultColumnWidths[index + 1]]

\* {index, startX: e.clientX, startWidth: columnWidths[index]}
StartSession(index, clientX) ==
    [index |-> index, startX |-> clientX, startWidth |-> columnWidths[index + 1]]

\* handleResizeStart(e, index): onMouseDown of the resize handle of column
\* index of the populated view.
handleResizeStart(index, clientX) ==
    /\ rendered = "populated"
    /\ index \in 0..(Len(result.columns) - 1)
    /\ resizing' = StartSession(index, clientX)
    /\ UNCHANGED <<isLoading, error, result, rendered, defaultColumnWidths,
                   columnWidthOverrides, overrideShape, headerScrollLeft,
                   bodyScrollLeft, scrollPending, editorVars, aliasVars, splitVars,
                   appVars, sidebarVars>>

\* A variant without the floor.
newWidthNoFloor(session, clientX) == session.startWidth + (clientX - session.startX)

\* delta = e.clientX - resizing.startX; Math.max(60, resizing.startWidth + delta)
newWidth(session, clientX) ==
    MathMax(60, session.startWidth + (clientX - session.startX))

\* A variant that keeps no other entry.
SetOverrideAlone(prev, index, width) == [i \in {index} |-> width]

\* prev => ({...prev, [resizing.index]: newWidth})
SetOverride(prev, index, width) ==
    [i \in DOMAIN prev \cup {index} |-> IF i = index THEN width ELSE prev[i]]

\* handleResizeMove(e): a mouse move over the container of the populated
\* view. Without a session the handler is not attached, and returns at once
\* if called. (Widths above MaxWidth are left out of the exploration.)
handleResizeMove(clientX) ==
    /\ rendered = "populated"
    /\ IF resizing = NullResizing
       THEN UNCHANGED <<columnWidthOverrides, overrideShape>>
       ELSE /\ newWidth(resizing, clientX) <= MaxWidth
            /\ columnWidthOverrides' =
                 SetOverride(columnWidthOverrides, resizing.index,
                             newWidth(resizing, clientX))
            /\ overrideShape' =
                 SetOverride(overrideShape, resizing.index, Len(result.columns))
    /\ UNCHANGED <<isLoading, error, result, rendered, defaultColumnWidths,
                   resizing, headerScrollLeft, bodyScrollLeft, scrollPending,
                   editorVars, aliasVars, splitVars,
                   appVars, sidebarVars>>

\* handleResizeEnd(): onMouseUp and onMouseLeave of the container, attached
\* while a session exists.
handleResizeEnd ==
    /\ rendered = "populated"
    /\ resizing # NullResizing
    /\ resizing' = NullResizing
    /\ UNCHANGED <<isLoading, error, result, rendered, defaultColumnWidths,
                   columnWidthOverrides, overrideShape, headerScrollLeft,
                   bodyScrollLeft, scrollPending, editorVars, aliasVars, splitVars,
                   appVars, sidebarVars>>

GridInit ==
    /\ GridIdle
    /\ EditorIdle /\ AliasIdle /\ SplitIdle /\ AppIdle /\ SidebarIdle

GridNext ==
    \/ \E res \in GridResults, err \in GridErrors, loading \in BOOLEAN :
            Render(res, err, loading)
    \/ \E index \in 0..1, clientX \in ClientXs : handleResizeStart(index, clientX)
    \/ \E clientX \in ClientXs : handleResizeMove(clientX)
    \/ handleResizeEnd

SpecGrid == GridInit /\ [][GridNext]_vars

(***************************************************************************)
(* Claims about ResultsTable (specification SpecResults).                  *)
(***************************************************************************)
\* C1 as stated: the render takes loading if isLoading; else error if error
\* is not null; else no-result if result is null; else empty-rows if
\* result.row_count = 0; else populated.
C1_PrecedenceByRowCount ==
    rendered =
        IF isLoading THEN "loading"
        ELSE IF error # NullError THEN "error"
        ELSE IF result = NullResult THEN "no-result"
        ELSE IF result.row_count = 0 THEN "empty-rows"
        ELSE "populated"

\* C1, amended: the render takes exactly one of the five states: loading if
\* isLoading; else error if error is a non-empty string; else no-result if
\* result is null; else empty-rows if result.rows is empty (whatever
\* result.row_count says); else populated.
C1_PrecedenceByRows ==
    rendered =
        IF isLoading THEN "loading"
        ELSE IF error \notin {NullError, ""} THEN "error"
        ELSE IF result = NullResult THEN "no-result"
        ELSE IF result.rows = <<>> THEN "empty-rows"
        ELSE "populated"

\* C1 witness: a render with a result whose rows are empty and whose row_count
\* is not 0 took the empty-rows return.
C1_Witness ==
    /\ ~isLoading /\ error = NullError /\ result # NullResult
    /\ result.rows = <<>> /\ result.row_count > 0
    /\ rendered = "empty-rows"

(***************************************************************************)
(* ResultsTable, scroll synchronisation (specification SpecScroll): the    *)
(* body of the populated view is scrolled, and its scroll events are       *)
(* dispatched to handleBodyScroll.                                         *)
(***************************************************************************)
MaxScroll == 4

\* The user (or the layout) moves the body's horizontal offset to x, or
\* scrolls it vertically (x is the offset it has); a scroll event is queued.
\* The header has overflow hidden and no handler: nothing scrolls it.
BodyScrolled(x) ==
    /\ rendered = "populated"
    /\ bodyScrollLeft' = x
    /\ scrollPending' = TRUE
    /\ UNCHANGED <<isLoading, error, result, rendered, defaultColumnWidths,
                   columnWidthOverrides, resizing, overrideShape,
                   headerScrollLeft, editorVars, aliasVars, splitVars,
                   appVars, sidebarVars>>

\* A variant that leaves the header where it is.
SyncedHeaderKept(scrollLeft) == headerScrollLeft

\* headerScrollRef.current.scrollLeft = e.currentTarget.scrollLeft
SyncedHeader(scrollLeft) == scrollLeft

\* handleBodyScroll(e): onScroll of the body. headerScrollRef.current is set
\* whenever the body exists.
handleBodyScroll ==
    /\ rendered = "populated"
    /\ scrollPending
    /\ headerScrollLeft' = SyncedHeader(bodyScrollLeft)
    /\ scrollPending' = FALSE
    /\ UNCHANGED <<isLoading, error, result, rendered, defaultColumnWidths,
                   columnWidthOverrides, resizing, overrideShape,
                   bodyScrollLeft, editorVars, aliasVars, splitVars,
                   appVars, sidebarVars>>

ScrollInit ==
    /\ GridIdle
    /\ EditorIdle /\ AliasIdle /\ SplitIdle /\ AppIdle /\ SidebarIdle

ScrollNext ==
    \/ \E res \in GridResults, err \in GridErrors, loading \in BOOLEAN :
            Render(res, err, loading)
    \/ \E x \in 0..MaxScroll : BodyScrolled(x)
    \/ handleBodyScroll

SpecScroll == ScrollInit /\ [][ScrollNext]_vars

(***************************************************************************)
(* ResultsTable, resizing and scrolling together (specification            *)
(* SpecGridScroll): renders, the mouse events of the resize controller and *)
(* the scrolling of the body, on a result with two columns.                *)
(***************************************************************************)
GridScrollResults == {NullResult, ResultTwoColumns}

\* The horizontal offsets the body is scrolled to.
ScrollTargets == {0, MaxScroll}

GridScrollInit ==
    /\ GridIdle
    /\ EditorIdle /\ AliasIdle /\ SplitIdle /\ AppIdle /\ SidebarIdle

GridScrollNext ==
    \/ \E res \in GridScrollResults, loading \in BOOLEAN :
            Render(res, NullError, loading)
    \/ \E index \in 0..1, clientX \in ClientXs : handleResizeStart(index, clientX)
    \/ \E clientX \in ClientXs : handleResizeMove(clientX)
    \/ handleResizeEnd
    \/ \E x \in ScrollTargets : BodyScrolled(x)
    \/ handleBodyScroll

SpecGridScroll == GridScrollInit /\ [][GridScrollNext]_vars

(***************************************************************************)
(* App.tsx: the divider between the editor pane and the results pane       *)
(* (specification SpecSplit).                                              *)
(***************************************************************************)
MaxPointerY == 100

\* rect.height of the container, in pixels.
ContainerHeights == {40, 100}

\* handleDragStart(): onMouseDown of the resize handle.
handleDragStart ==
    /\ isDragging' = TRUE
    /\ UNCHANGED <<editorHeight, editorVars, aliasVars, gridVars,
                   appVars, sidebarVars>>

\* A variant without the upper limit.
ClampedPercentageNoCeiling(y, height) ==
    IF 100 * y < 15 * height THEN Fraction(15, 1) ELSE Fraction(100 * y, height)

\* percentage = (y / rect.height) * 100; Math.min(85, Math.max(15, percentage))
ClampedPercentage(y, height) ==
    IF 100 * y < 15 * height THEN Fraction(15, 1)
    ELSE IF 100 * y > 85 * height THEN Fraction(85, 1)
    ELSE Fraction(100 * y, height)

\* handleDragMove(e): a mouse move over the container, y = e.clientY -
\* rect.top. When the divider is not being dragged the handler is not
\* attached, and returns at once if called.
handleDragMove(y, height) ==
    /\ IF isDragging
       THEN editorHeight' = ClampedPercentage(y, height)
       ELSE UNCHANGED editorHeight
    /\ UNCHANGED <<isDragging, editorVars, aliasVars, gridVars,
                   appVars, sidebarVars>>

\* handleDragEnd(): onMouseUp and onMouseLeave of the container, attached
\* while the divider is being dragged.
handleDragEnd ==
    /\ isDragging
    /\ isDragging' = FALSE
    /\ UNCHANGED <<editorHeight, editorVars, aliasVars, gridVars,
                   appVars, sidebarVars>>

\* height: `${100 - editorHeight}%` of the results pane.
resultsHeight == Fraction(100 * editorHeight.d - editorHeight.n, editorHeight.d)

SplitInit ==
    /\ SplitIdle /\ AppIdle /\ SidebarIdle
    /\ EditorIdle /\ AliasIdle /\ GridIdle

SplitNext ==
    \/ handleDragStart
    \/ \E y \in 0..MaxPointerY, height \in ContainerHeights : handleDragMove(y, height)
    \/ handleDragEnd

SpecSplit == SplitInit /\ [][SplitNext]_vars

(***************************************************************************)
(* Claims about the column widths and the resize handlers (specification   *)
(* SpecGrid).                                                              *)
(***************************************************************************)
\* The width the claims give for a session and a pointer position.
FlooredWidth(startWidth, startX, currentX) ==
    IF startWidth + (currentX - startX) < 60 THEN 60
    ELSE startWidth + (currentX - startX)

\* C11: every pointer-move during a resize session stores, for the session's
\* column, the width max(60, startWidth + (currentX - startX)); no stored
\* width is ever negative or below 60.
C11_MoveStoresFlooredWidth ==
    [][/\ \A x \in ClientXs :
            (resizing # NullResizing /\ handleResizeMove(x)) =>
                /\ resizing.index \in DOMAIN columnWidthOverrides'
                /\ columnWidthOverrides'[resizing.index] =
                        FlooredWidth(resizing.startWidth, resizing.startX, x)
       /\ \A i \in DOMAIN columnWidthOverrides' : columnWidthOverrides'[i] >= 60
      ]_vars

\* C11 witness: a session that started at width 120 and pointer 300 has
\* stored the floor for its column (the pointer moved to 100, delta -200).
C11_Witness ==
    /\ resizing # NullResizing
    /\ resizing.startWidth = 120 /\ resizing.startX = 300
    /\ resizing.index \in DOMAIN columnWidthOverrides
    /\ columnWidthOverrides[resizing.index] = 60

\* C12: an override stored while a result with another column count was on
\* display is not applied: the populated view shows such a column at its
\* estimated default width.
C12_NoStaleOverride ==
    rendered = "populated" =>
        \A c \in 1..Len(result.columns) :
            ((c - 1) \in DOMAIN columnWidthOverrides
                /\ overrideShape[c - 1] # Len(result.columns))
            => columnWidths[c] = defaultColumnWidths[c]

\* C13: a pointer-down on a column boundary while a session is active does
\* not replace it: from one step to the next a session either stays as it
\* is (index, startX, startWidth) or ends.
C13_SessionNotReplaced ==
    [][(resizing # NullResizing /\ resizing' # NullResizing) => resizing' = resizing]_vars

\* The width on display for column index i: its override if it has one, else
\* its estimated default.
EffectiveWidth(i) ==
    IF i \in DOMAIN columnWidthOverrides THEN columnWidthOverrides[i]
    ELSE defaultColumnWidths[i + 1]

\* C14: the controller is idle or holds one session {index, startX,
\* startWidth}; it leaves idle only by a pointer-down on the boundary of a
\* column i of the result on display, to the session (i, pointerX, width on
\* display for i); the container's pointer-up or pointer-leave while
\* resizing returns it to idle; and no step taken while idle changes a width
\* override.
C14_ResizeStateMachine ==
    [][/\ \/ resizing' = NullResizing
          \/ DOMAIN resizing' = {"index", "startX", "startWidth"}
       /\ (resizing = NullResizing /\ resizing' # NullResizing) =>
             /\ rendered = "populated"
             /\ \E i \in 0..(Len(result.columns) - 1), x \in ClientXs :
                   resizing' = [index |-> i, startX |-> x,
                                startWidth |-> EffectiveWidth(i)]
       /\ (resizing # NullResizing /\ handleResizeEnd) => resizing' = NullResizing
       /\ resizing = NullResizing => columnWidthOverrides' = columnWidthOverrides
      ]_vars

\* C14 witness: a session that started on a column whose width on display
\* was an override, not the estimated default (a pointer-down while idle,
\* after an earlier session had ended).
C14_Witness ==
    /\ rendered = "populated"
    /\ resizing # NullResizing
    /\ resizing.index \in DOMAIN columnWidthOverrides
    /\ resizing.index < Len(defaultColumnWidths)
    /\ resizing.startWidth = columnWidthOverrides[resizing.index]
    /\ resizing.startWidth # defaultColumnWidths[resizing.index + 1]

\* The number of characters the claim's stringify gives a cell.
CellTextLength(cell) ==
    CASE cell.t = "null"    -> 4
      [] cell.t = "string"  -> Len(cell.v)
      [] cell.t = "boolean" -> IF cell.v THEN 4 ELSE 5
      [] cell.t = "number"  ->
            LET a == IF cell.v < 0 THEN -cell.v ELSE cell.v
                digits == CHOOSE d \in 1..10 :
                            /\ a < 10^d
                            /\ d > 1 => a >= 10^(d - 1)
            IN  IF cell.v < 0 THEN digits + 1 ELSE digits

\* The widths the claim's formula allows column c (from 1) to draw on: the
\* header's, those of the cells of rows 0..99, and the floor 100.
CandidateWidths(res, c) ==
    {Len(res.columns[c].name) * 9 + 32, 100}
        \cup {CellTextLength(res.rows[k][c]) * 8 + 24 :
                 k \in {j \in 1..Len(res.rows) : j - 1 <= 99}}

\* C15: the estimated widths are a function of the column names and the
\* first 100 rows: for each column the greatest of the header width
\* len(name)*9 + 32, the cell widths len(stringify(cell))*8 + 24 of rows
\* 0..99 (null stringifies to NULL) and 100, cut off at 500; so rows at index
\* 100 or later change nothing and every width lies in 100..500.
C15_EstimateWidths ==
    result # NullResult =>
        /\ Len(defaultColumnWidths) = Len(result.columns)
        /\ \A c \in 1..Len(result.columns) :
              /\ defaultColumnWidths[c] >= 100 /\ defaultColumnWidths[c] <= 500
              /\ \A w \in CandidateWidths(result, c) :
                    w <= 500 => w <= defaultColumnWidths[c]
              /\ \/ defaultColumnWidths[c] \in CandidateWidths(result, c)
                 \/ /\ defaultColumnWidths[c] = 500
                    /\ \E w \in CandidateWidths(result, c) : w > 500

\* C15 witness: a result of more than 100 rows whose row at index 100 has a
\* cell wider than the estimate of its column, which is the floor.
C15_Witness ==
    /\ result # NullResult
    /\ Len(result.rows) > 100
    /\ defaultColumnWidths = <<100>>
    /\ CellTextLength(result.rows[101][1]) * 8 + 24 > 100

(***************************************************************************)
(* Claims about the scroll synchronisation (specification SpecScroll).     *)
(***************************************************************************)
\* C17: after every body scroll event the header's horizontal offset equals
\* the body's (so the two agree whenever no scroll event is waiting), and no
\* step sets the body's offset from the header's: a step that changes the
\* header copies the body's offset, which it leaves alone, or discards both
\* elements.
C17_HeaderFollowsBody ==
    [][/\ ~scrollPending' => headerScrollLeft' = bodyScrollLeft'
       /\ handleBodyScroll =>
             headerScrollLeft' = bodyScrollLeft /\ bodyScrollLeft' = bodyScrollLeft
       /\ headerScrollLeft' # headerScrollLeft =>
             \/ bodyScrollLeft' = bodyScrollLeft /\ headerScrollLeft' = bodyScrollLeft
             \/ rendered' # "populated" \/ rendered # "populated"
      ]_vars

\* C17 witness: the body was scrolled sideways, its event was handled, and
\* the header stands at the same offset.
C17_Witness ==
    /\ rendered = "populated"
    /\ ~scrollPending
    /\ bodyScrollLeft > 0
    /\ headerScrollLeft = bodyScrollLeft

(***************************************************************************)
(* Claims about the completion provider, the schema cache and the          *)
(* registration lifecycle (specification Spec).                            *)
(***************************************************************************)
\* The text before the cursor ends in <identifier>. plus optional whitespace.
InDotContext(text) ==
    \E d \in 2..Len(text) :
        /\ Ch(text, d) = "."
        /\ Ch(text, d - 1) \in WordChars
        /\ \A j \in (d + 1)..Len(text) : Ch(text, j) \in SpaceChars

\* A request has resolved, and it was made in dot-context.
DotRequestDone == lastDone.source # "none" /\ InDotContext(lastDone.textBefore)

\* The items are Field items, one per column, in column order.
FieldsOf(items, columns) ==
    /\ Len(items) = Len(columns)
    /\ \A i \in 1..Len(items) :
          /\ items[i].kind = "Field"
          /\ items[i].label = columns[i].name
          /\ items[i].detail = columns[i].data_type
          /\ items[i].insertText = columns[i].name

\* C2: the result of a completion request in dot-context holds only Field
\* items: one per column of the resolved table, in column order, with the
\* column's data type as detail and its name as insertText; no Table or
\* Keyword item; and no item at all when the identifier resolves to nothing.
C2_DotContextOnlyFields ==
    DotRequestDone =>
        /\ FieldsOf(lastDone.suggestions, lastDone.columns)
        /\ \A i \in 1..Len(lastDone.suggestions) :
              lastDone.suggestions[i].kind \notin {"Class", "Keyword"}
        /\ (lastDone.tableName = "" => lastDone.suggestions = <<>>)

\* C2 witness: a request after `o.`, where o is an alias of orders, resolved
\* with one Field item per column of orders.
C2_Witness ==
    /\ DotRequestDone
    /\ lastDone.textBefore = "SELECT o."
    /\ lastDone.tableName = "orders"
    /\ lastDone.columns = ColsA
    /\ Len(lastDone.suggestions) = 2

\* C3 as stated: after a request whose fetch rejected has resolved, the cache
\* has no entry for its table.
C3_NoEntryAfterReject ==
    lastDone.source = "rejected" => lastDone.tableName \notin DOMAIN schemaCache

\* C3, amended: a request whose fetch rejects resolves with zero items and the
\* rejection changes nothing in the cache (the table has an entry afterwards
\* only if another fetch for it succeeded); and a dot-context request for a
\* resolved table returns without a fetch only if the table has an entry, so
\* that the next request for a table left without one fetches again.
C3_RejectWritesNothing ==
    [][/\ (lastDone' # lastDone /\ lastDone'.source = "rejected") =>
            /\ lastDone'.suggestions = <<>>
            /\ schemaCache' = schemaCache
       /\ (nextReq' # nextReq /\ lastDone' # lastDone /\ InDotContext(lastDone'.textBefore)
              /\ lastDone'.tableName # "") =>
            lastDone'.tableName \in DOMAIN schemaCache
       /\ \A r \in inflight' \ inflight : fetchCalls' = fetchCalls + 1]_vars

\* C3 witness: a fetch for a table rejected, the table has no entry, and a
\* later request for the same table has invoked the fetch again.
C3_Witness ==
    /\ lastDone.source = "rejected"
    /\ lastDone.suggestions = <<>>
    /\ lastDone.tableName \notin DOMAIN schemaCache
    /\ \E r \in inflight : r.id > lastDone.id /\ r.tableName = lastDone.tableName

\* C4: a dot-context request for a table that has a cache entry invokes no
\* fetch: it is never suspended at getSchema, it returns Field items that are
\* exactly the cached columns, and it leaves the cache unchanged.
C4_CacheHitNoFetch ==
    [][nextReq' # nextReq =>
        /\ \A r \in inflight' \ inflight : r.tableName \notin DOMAIN schemaCache
        /\ (lastDone' # lastDone /\ InDotContext(lastDone'.textBefore)
               /\ lastDone'.tableName \in DOMAIN schemaCache) =>
             /\ fetchCalls' = fetchCalls
             /\ schemaCache' = schemaCache
             /\ lastDone'.columns = schemaCache[lastDone'.tableName]
             /\ FieldsOf(lastDone'.suggestions, schemaCache[lastDone'.tableName])]_vars

\* C4 witness: a dot-context request for a cached table returned its columns
\* after exactly one fetch had been made in the session.
C4_Witness ==
    /\ DotRequestDone
    /\ lastDone.id = 2
    /\ fetchCalls = 1
    /\ inflight = {}
    /\ lastDone.tableName \in DOMAIN schemaCache
    /\ lastDone.source = "hit"
    /\ lastDone.suggestions # <<>>

\* C5: an entry of the cache is created only by a fetch that succeeded, and
\* no step removes one: requests, rejected fetches, changes of `tables`,
\* re-registrations and unmounting keep every entry.
C5_EntriesPersist ==
    [][/\ DOMAIN schemaCache \subseteq DOMAIN schemaCache'
       /\ schemaCache' # schemaCache =>
            /\ lastDone' # lastDone
            /\ lastDone'.source = "fetched"
            /\ DOMAIN schemaCache' = DOMAIN schemaCache \cup {lastDone'.tableName}]_vars

\* C5 witness: an entry is in the cache after a rejected fetch, a second
\* registration of the provider and the unmounting of the editor.
C5_Witness ==
    /\ DOMAIN schemaCache # {}
    /\ lastDone.source = "rejected"
    /\ completionDisposable = 2
    /\ ~mounted

\* C6: every suspended request has invoked its own fetch (two requests for the
\* same table that overlap are two fetches), and the entry of a table is the
\* value of the fetch for it that resolved last.
C6_LastResolvedFetchWins ==
    /\ Cardinality(inflight) <= fetchCalls
    /\ \A r1, r2 \in inflight : (r1 # r2 /\ r1.tableName = r2.tableName) => fetchCalls >= 2
    /\ lastDone.source = "fetched" =>
          /\ lastDone.tableName \in DOMAIN schemaCache
          /\ schemaCache[lastDone.tableName] = lastDone.columns

\* C6 witness: two requests for the same uncached table overlapped, both
\* fetched, the fetches resolved with different columns, and the entry is the
\* one written last.
C6_Witness ==
    /\ lastDone.source = "fetched"
    /\ lastDone.overlapped
    /\ fetchCalls = 2
    /\ lastDone.prevEntry.present
    /\ lastDone.prevEntry.columns # lastDone.columns
    /\ schemaCache[lastDone.tableName] = lastDone.columns

\* C7: from the mounting of the editor until it is unmounted, exactly one
\* provider registration is active.
C7_ExactlyOneProvider ==
    (mounted /\ monacoRef) => Cardinality(activeProviders) = 1

(***************************************************************************)
(* Claims about parseTableAliases (specification SpecAlias).               *)
(***************************************************************************)
\* The words of a text, split at whitespace.
RECURSIVE WordsOf(_)
WordsOf(s) ==
    LET b == RunEnd(s, 1, SpaceChars)
        e == RunEnd(s, b, (WordChars \cup QuoteChars \cup {",", ".", "(", ")", "*", "="}))
    IN  IF b > Len(s) \/ e = b THEN <<>>
        ELSE <<SubSeq(s, b, e - 1)>> \o WordsOf(SubSeq(s, e, Len(s)))

\* Reserved words: every word of an entry of SQL_KEYWORDS, and the clause
\* words that may follow a table name.
ReservedWords ==
    UNION {{WordsOf(k)[i] : i \in 1..Len(WordsOf(k))} : k \in KeywordsUpper}
    \cup {BoundaryWords[i] : i \in 1..Len(BoundaryWords)}

IsIdent(w) == toUpperCase(w) \notin ReservedWords

IsClauseWord(w) == toUpperCase(w) \in {"FROM", "JOIN"}
IsAs(w) == toUpperCase(w) = "AS"

HasAs(ws, i) == i + 2 <= Len(ws) /\ toUpperCase(ws[i + 2]) = "AS"

\* ws[i] opens a clause FROM <table> [AS] <alias> or JOIN <table> [AS] <alias>
\* whose table and alias are identifiers.
ClauseAt(ws, i) ==
    /\ IsClauseWord(ws[i])
    /\ i + 2 <= Len(ws)
    /\ IsIdent(ws[i + 1])
    /\ IF HasAs(ws, i) THEN i + 3 <= Len(ws) /\ IsIdent(ws[i + 3])
       ELSE IsIdent(ws[i + 2])

ClauseAlias(ws, i) == IF HasAs(ws, i) THEN ws[i + 3] ELSE ws[i + 2]
ClauseTable(ws, i) == ws[i + 1]

\* C8: every clause FROM/JOIN <table> [AS] <alias> of the text whose alias is
\* not a reserved word has its lower-cased alias as a key of the returned map,
\* bound to the table of a clause that declares that alias, whatever clauses
\* precede or follow it.
C8_EveryClauseMapped ==
    aliasDone =>
        LET ws == WordsOf(sql)
        IN  \A i \in 1..Len(ws) :
                ClauseAt(ws, i) =>
                    LET k == toLowerCase(ClauseAlias(ws, i))
                    IN  /\ k \in DOMAIN aliasResult
                        /\ \E j \in 1..Len(ws) :
                              /\ ClauseAt(ws, j)
                              /\ toLowerCase(ClauseAlias(ws, j)) = k
                              /\ aliasResult[k] = ClauseTable(ws, j)

\* The matches of pattern p in s that bind key k, by index in match order.
BindersOf(p, s, k) ==
    LET ms == MatchAll(p, s, 1)
    IN  {i \in 1..Len(ms) : ~IsKeyword(ms[i].alias) /\ toLowerCase(ms[i].alias) = k}

\* The table of the last match of pattern p in s that binds key k.
LastTable(p, s, k) ==
    LET ms == MatchAll(p, s, 1)
        b  == BindersOf(p, s, k)
    IN  ms[CHOOSE i \in b : \A j \in b : j <= i].table

BothBind(s, k) == BindersOf(0, s, k) # {} /\ BindersOf(1, s, k) # {}

\* C9: when an alias is bound by both patterns, the returned map holds the
\* table bound by the pattern that requires a boundary keyword after the alias
\* (patterns[1], evaluated second), not the one bound by patterns[0].
C9_SecondPatternWins ==
    aliasDone =>
        \A k \in DOMAIN aliasResult :
            BothBind(sql, k) => aliasResult[k] = LastTable(1, sql, k)

\* C9 witness: a text in which the two patterns bind the same alias to
\* different tables has been resolved.
C9_Witness ==
    /\ aliasDone
    /\ \E k \in DOMAIN aliasResult :
          /\ BothBind(sql, k)
          /\ LastTable(0, sql, k) # LastTable(1, sql, k)
          /\ aliasResult[k] = LastTable(1, sql, k)

\* C10: no key of the returned map is, case-insensitively, a reserved word,
\* the clause words ON, WHERE, JOIN, LEFT, RIGHT, INNER, OUTER, CROSS, ORDER,
\* GROUP and LIMIT included.
C10_NoReservedKey ==
    aliasDone =>
        \A k \in DOMAIN aliasResult : toUpperCase(k) \notin ReservedWords


(***************************************************************************)
(* Claims about the completion provider on its own (specification         *)
(* SpecProvider).                                                          *)
(***************************************************************************)
\* The text ends in the word FROM or JOIN (in any letter case, as a whole
\* word), whitespace, and a possibly empty run of word characters.
AfterClauseWord(text) ==
    \E k \in 1..Len(text), g \in 1..Len(text) :
        /\ k + 4 <= g
        /\ toUpperCase(SubSeq(text, k, k + 3)) \in {"FROM", "JOIN"}
        /\ k > 1 => Ch(text, k - 1) \notin WordChars
        /\ \A i \in (k + 4)..g : Ch(text, i) \in SpaceChars
        /\ \A i \in (g + 1)..Len(text) : Ch(text, i) \in WordChars

\* The word token under the cursor is not empty: the text before the cursor
\* ends in a word character.
WordBeforeCursor(text) == Len(text) > 0 /\ Ch(text, Len(text)) \in WordChars

\* The last request was answered outside dot-context.
PlainRequestDone == lastDone.source # "none" /\ ~InDotContext(lastDone.textBefore)

\* How many Table items the claim gives the last request.
TablesOffered ==
    IF AfterClauseWord(lastDone.textBefore) \/ WordBeforeCursor(lastDone.textBefore)
    THEN Len(tables) ELSE 0

\* C18: outside dot-context the result holds one Keyword item per entry of
\* SQL_KEYWORDS, insertText the keyword, and before them one Table item per
\* known table (detail Table, insertText the name in double quotes) if and
\* only if the text before the cursor ends in FROM or JOIN, whitespace and a
\* partial identifier, or the word under the cursor is not empty.
C18_PlainItems ==
    PlainRequestDone =>
        /\ Len(lastDone.suggestions) = TablesOffered + Len(SQL_KEYWORDS)
        /\ \A i \in 1..TablesOffered :
              /\ lastDone.suggestions[i].kind = "Class"
              /\ lastDone.suggestions[i].label = tables[i]
              /\ lastDone.suggestions[i].detail = "Table"
              /\ lastDone.suggestions[i].insertText = "\"" \o tables[i] \o "\""
        /\ \A j \in 1..Len(SQL_KEYWORDS) :
              /\ lastDone.suggestions[TablesOffered + j].kind = "Keyword"
              /\ lastDone.suggestions[TablesOffered + j].label = SQL_KEYWORDS[j]
              /\ lastDone.suggestions[TablesOffered + j].insertText = SQL_KEYWORDS[j]

\* C18 witness: a request after `from` and a space, with no word under the
\* cursor and tables known, whose result starts with a Table item.
C18_Witness ==
    /\ PlainRequestDone
    /\ tables # <<>>
    /\ AfterClauseWord(lastDone.textBefore)
    /\ ~WordBeforeCursor(lastDone.textBefore)
    /\ lastDone.suggestions[1].kind = "Class"

\* The identifier before the dot the text ends in (with optional whitespace
\* after the dot), in lower case.
RECURSIVE IdentifierFrom(_, _)
IdentifierFrom(text, d) ==
    IF d >= 1 /\ Ch(text, d) \in WordChars
    THEN IdentifierFrom(text, d - 1) \o LowerChar(Ch(text, d))
    ELSE ""
RECURSIVE DotIdentifier(_, _)
DotIdentifier(text, n) ==
    IF n >= 1 /\ Ch(text, n) \in SpaceChars THEN DotIdentifier(text, n - 1)
    ELSE IdentifierFrom(text, n - 1)

\* The tables some text of ProviderDocs gives the identifier as an alias.
AliasTargets(id) ==
    {parseTableAliases(doc)[id] :
        doc \in {d \in ProviderDocs : id \in DOMAIN parseTableAliases(d)}}

\* The known tables whose name is the identifier, letter case aside.
TablesNamed(id) == {tables[i] : i \in {j \in 1..Len(tables) : toLowerCase(tables[j]) = id}}

\* C19: in dot-context the identifier is resolved through the alias map
\* first and, if it is not an alias, through the known tables: a schema
\* fetch is made only for the alias's table or, for an identifier that is no
\* alias, for the known table of that name; for an identifier that is
\* neither, no fetch is made.
C19_AliasThenTable ==
    \A r \in inflight :
        IF AliasTargets(DotIdentifier(r.textBefore, Len(r.textBefore))) # {}
        THEN r.tableName \in AliasTargets(DotIdentifier(r.textBefore, Len(r.textBefore)))
        ELSE r.tableName \in TablesNamed(DotIdentifier(r.textBefore, Len(r.textBefore)))

\* The text ends in <identifier>. and a non-empty partial word.
PartialWordAfterDot(text) ==
    \E d \in 2..(Len(text) - 1) :
        /\ Ch(text, d) = "."
        /\ Ch(text, d - 1) \in WordChars
        /\ \A j \in (d + 1)..Len(text) : Ch(text, j) \in WordChars

\* C29: a request is handled as dot-context exactly when the text of the
\* cursor's line before the cursor ends in <identifier>. and optional
\* whitespace; after a partial word behind the dot the result holds one Table
\* item per known table and the Keyword items, and no Field item; and a
\* request after `u.` on the first line of a text whose second line declares
\* u an alias of t is resolved to t.
C29_DotContextExactly ==
    /\ \A r \in inflight :
          /\ InDotContext(r.textBefore)
          /\ r.textBefore = "u." => r.tableName = "t"
    /\ lastDone.source # "none" =>
          /\ (lastDone.source = "nodot") = ~InDotContext(lastDone.textBefore)
          /\ lastDone.textBefore = "u." => lastDone.tableName = "t"
          /\ PartialWordAfterDot(lastDone.textBefore) =>
                /\ lastDone.source = "nodot"
                /\ Len(lastDone.suggestions) = Len(tables) + Len(SQL_KEYWORDS)
                /\ \A i \in 1..Len(lastDone.suggestions) :
                      lastDone.suggestions[i].kind =
                          IF i <= Len(tables) THEN "Class" ELSE "Keyword"

\* C29 witness: a request after `u.` on the first line is in flight for the
\* schema of t, the table the second line gives the alias u, and a request
\* after `t.co` was answered at once with a Table item first.
C29_Witness ==
    /\ \E r \in inflight : r.textBefore = "u." /\ r.tableName = "t"
    /\ lastDone.source = "nodot"
    /\ lastDone.textBefore = "t.co"
    /\ tables # <<>>
    /\ lastDone.suggestions[1].kind = "Class"

(***************************************************************************)
(* Claims about the split between the panes (specification SpecSplit).     *)
(***************************************************************************)
\* lo <= f <= hi for a fraction f and whole numbers lo, hi.
Between(f, lo, hi) == lo * f.d <= f.n /\ f.n <= hi * f.d

\* C20: after any sequence of drag-start, pointer-move and drag-end events
\* the editor pane's height is between 15% and 85%, the results pane's is 100%
\* minus it and so between 15% and 85% too; and a pointer-move outside a drag
\* leaves the height unchanged.
C20_PanesWithinLimits ==
    /\ [](/\ Between(editorHeight, 15, 85)
          /\ Between(resultsHeight, 15, 85)
          /\ resultsHeight.n * editorHeight.d + editorHeight.n * resultsHeight.d
                = 100 * editorHeight.d * resultsHeight.d)
    /\ [][~isDragging => editorHeight' = editorHeight]_vars

\* C20 witness: during a drag the pointer went below 85% of the container
\* and the editor pane stands at 85%, the results pane at 15%.
C20_Witness ==
    /\ isDragging
    /\ editorHeight = Fraction(85, 1)
    /\ resultsHeight = Fraction(15, 1)

(***************************************************************************)
(* Further claims about the column widths (specifications SpecGrid and     *)
(* SpecGridScroll).                                                        *)
(***************************************************************************)
\* The floor in the estimator's Math.max(headerWidth, maxContentWidth, 100)
\* and the floor in the resize controller's Math.max(60, ...).
estimatorFloor == 100
resizeFloor == 60

\* The column indices of the result the memo was computed from.
EstimatedColumns == 0..(Len(defaultColumnWidths) - 1)

\* C23 as stated: every effective column width (the override if the index
\* has one, else the estimate) is at least the one floor that the
\* estimator's clamp and the resize controller's max both use.
C23_WidthsAtLeastOneFloor ==
    \A i \in EstimatedColumns :
        EffectiveWidth(i) >= estimatorFloor /\ EffectiveWidth(i) >= resizeFloor

\* C23, amended: every effective column width is at least the resize
\* controller's floor (60), every estimate is at least the floor of the
\* estimator's clamp (100), and the two floors are different constants.
C23_WidthsAtLeastResizeFloor ==
    \A i \in EstimatedColumns :
        /\ EffectiveWidth(i) >= resizeFloor
        /\ defaultColumnWidths[i + 1] >= estimatorFloor

\* C23 witness: the populated view shows a column at the resize floor, below
\* the floor of its estimate.
C23_Witness ==
    /\ rendered = "populated"
    /\ \E i \in EstimatedColumns :
        /\ i \in DOMAIN columnWidthOverrides
        /\ EffectiveWidth(i) = resizeFloor
        /\ EffectiveWidth(i) < estimatorFloor

\* C24: a step changes the override of an index, or gives the index its
\* first override, only if it is a pointer-move of a session on that index
\* over the populated view; no step removes an override. So a pointer-move
\* leaves the other indices' overrides as they are, and pointer-up,
\* pointer-leave, scrolling and a render of the same result leave them all.
C24_OnlyTheSessionsIndex ==
    [][/\ DOMAIN columnWidthOverrides \subseteq DOMAIN columnWidthOverrides'
       /\ \A i \in DOMAIN columnWidthOverrides' :
            (i \notin DOMAIN columnWidthOverrides
                \/ columnWidthOverrides'[i] # columnWidthOverrides[i])
            => /\ rendered = "populated"
               /\ resizing # NullResizing
               /\ resizing.index = i
               /\ resizing' = resizing
               /\ UNCHANGED <<result, bodyScrollLeft, headerScrollLeft, scrollPending>>
      ]_vars

\* C24 witness: both columns have overrides, of different widths, a session
\* is active and the body has been scrolled and its header synchronised.
C24_Witness ==
    /\ rendered = "populated"
    /\ DOMAIN columnWidthOverrides = {0, 1}
    /\ columnWidthOverrides[0] # columnWidthOverrides[1]
    /\ resizing # NullResizing
    /\ bodyScrollLeft > 0 /\ headerScrollLeft = bodyScrollLeft

\* C28: whenever the last render took the loading, error, no-result or
\* empty-rows return the resize controller is idle.
C28_IdleOutsidePopulated ==
    rendered # "populated" => resizing = NullResizing

(***************************************************************************)
(* App.tsx: running queries and opening files (specification SpecApp).     *)
(* App holds query, result, error, isExecuting, status, loadingPath and    *)
(* tables; it renders SqlEditor with `tables` and ResultsTable with        *)
(* result, error and isLoading = isExecuting. The promises of the Tauri    *)
(* commands resolve or reject in separate steps, and so do the schema      *)
(* fetches of the completion provider. (handleSaveQuery,                   *)
(* handleLoadRecentQuery and handleTableSelect are not part of it.)        *)
(***************************************************************************)
MaxExecutions == 2      \* invocations of executeSql in a run
MaxOpens == 1           \* invocations of the open handlers in a run
MaxAppRequests == 1     \* completion requests in a run

\* isLoading={isExecuting}
isExecuting == isLoading

\* Texts the user leaves in the editor.
EditedTexts == {" \n", "SELECT 1"}
\* The text and the cursor of the completion requests: after `t.`.
AppDoc == "t."
AppCursor == [lineNumber |-> 1, column |-> 3]
\* What executeSql, loadPath and loadQuery resolve with, and String(err) of
\* what the commands reject with.
QueryResults == {ResultOneColumn}
LoadedTableLists == {<<"t">>}
LoadedQueries == {"SELECT 1"}
CommandErrors == {"Error: command failed"}

\* !query.trim(): nothing but white space.
IsBlank(q) == \A i \in 1..Len(q) : Ch(q, i) \in SpaceChars

\* After App's first commit: no table, the editor not yet mounted by monaco.
AppInit ==
    /\ tables = <<>>
    /\ mounted = TRUE
    /\ monacoRef = FALSE
    /\ completionDisposable = 0
    /\ hasCleanup = FALSE
    /\ activeProviders = {}
    /\ closureTables = <<>>
    /\ nextProvider = 1
    /\ schemaCache = EmptyAliases
    /\ inflight = {}
    /\ nextReq = 1
    /\ fetchCalls = 0
    /\ lastDone = NoRequest
    /\ AliasIdle /\ GridIdle /\ SplitIdle /\ AppIdle /\ SidebarIdle

\* handleChange(value): onChange(value || ''), which is setQuery.
handleChange(value) ==
    /\ monacoRef
    /\ query' = value
    /\ UNCHANGED <<status, loadingPath, runAction, executions, nextExecution,
                   lastCall, opens, nextOpen, editorVars, aliasVars, gridVars,
                   splitVars, sidebarVars>>

\* handleExecute as the closure over (q, executing) runs it, up to its
\* await: return if the query is blank or an execution is known to run;
\* else setIsExecuting(true), setStatus('running'), setError(null) and the
\* call of executeSql(q). `by` names the control that ran it.
handleExecute(q, executing, by) ==
    IF IsBlank(q) \/ executing
    THEN UNCHANGED vars
    ELSE /\ nextExecution <= MaxExecutions
         /\ executions' = executions \cup {[id |-> nextExecution, sql |-> q]}
         /\ nextExecution' = nextExecution + 1
         /\ lastCall' = [sql |-> q, text |-> query, by |-> by]
         /\ status' = "running"
         /\ RenderResults(result, NullError, TRUE)
         /\ UNCHANGED <<query, loadingPath, runAction, opens, nextOpen,
                        editorVars, aliasVars, splitVars, sidebarVars>>

\* A click on Run Query, disabled={!isLoaded || isExecuting}: the
\* handleExecute of the last render.
RunButton ==
    /\ Len(tables) > 0 /\ ~isExecuting
    /\ handleExecute(query, isExecuting, "button")

\* Ctrl/Cmd+Enter in the editor: the run-query action added by handleMount.
RunAction ==
    /\ runAction # NoAction
    /\ handleExecute(runAction.query, runAction.isExecuting, "editor")

\* executeSql resolves: setResult(queryResult), setExecutionTime,
\* setStatus('success'), and the finally block's setIsExecuting(false).
ExecuteResolve(e, queryResult) ==
    /\ e \in executions
    /\ executions' = executions \ {e}
    /\ status' = "success"
    /\ RenderResults(queryResult, error, FALSE)
    /\ UNCHANGED <<query, loadingPath, runAction, nextExecution, lastCall, opens,
                   nextOpen, editorVars, aliasVars, splitVars, sidebarVars>>

\* executeSql rejects: setError(String(err)), setResult(null),
\* setStatus('error'), and the finally block's setIsExecuting(false).
ExecuteReject(e, err) ==
    /\ e \in executions
    /\ executions' = executions \ {e}
    /\ status' = "error"
    /\ RenderResults(NullResult, err, FALSE)
    /\ UNCHANGED <<query, loadingPath, runAction, nextExecution, lastCall, opens,
                   nextOpen, editorVars, aliasVars, splitVars, sidebarVars>>

\* handleOpenFile, handleOpenFolder (buttons disabled={loadingPath}) and
\* handleOpenQuery, up to `await open(...)`.
OpenKinds == {"file", "folder", "query"}
handleOpen(kind) ==
    /\ nextOpen <= MaxOpens
    /\ kind \in {"file", "folder"} => ~loadingPath
    /\ opens' = opens \cup {[id |-> nextOpen, kind |-> kind, step |-> "open"]}
    /\ nextOpen' = nextOpen + 1
    /\ UNCHANGED <<query, status, loadingPath, runAction, executions,
                   nextExecution, lastCall, editorVars, aliasVars, gridVars,
                   splitVars, sidebarVars>>

\* A variant whose catch block leaves loadingPath as it is.
OpenCatchKeepsLoading(o, err) ==
    /\ opens' = opens \ {o}
    /\ RenderResults(result, err, isLoading)
    /\ IF o.kind = "query" THEN UNCHANGED status ELSE status' = "error"
    /\ UNCHANGED <<loadingPath, query, runAction, executions, nextExecution,
                   lastCall, nextOpen, editorVars, aliasVars, splitVars, sidebarVars>>

\* The handler's catch block: setError(String(err)) and, in handleOpenFile
\* and handleOpenFolder, setStatus('error') and setLoadingPath(false).
OpenCatch(o, err) ==
    /\ opens' = opens \ {o}
    /\ RenderResults(result, err, isLoading)
    /\ IF o.kind = "query"
       THEN UNCHANGED <<status, loadingPath>>
       ELSE status' = "error" /\ loadingPath' = FALSE
    /\ UNCHANGED <<query, runAction, executions, nextExecution, lastCall,
                   nextOpen, editorVars, aliasVars, splitVars, sidebarVars>>

\* The dialog resolves with a path or with null (cancelled). With a path,
\* handleOpenFile and handleOpenFolder do setLoadingPath(true),
\* setError(null) and call loadPath; handleOpenQuery calls loadQuery.
OpenResolve(o, selected) ==
    /\ o \in opens /\ o.step = "open"
    /\ IF ~selected
       THEN /\ opens' = opens \ {o}
            /\ UNCHANGED <<loadingPath, gridVars>>
       ELSE /\ opens' = (opens \ {o}) \cup {[o EXCEPT !.step = "load"]}
            /\ IF o.kind = "query"
               THEN UNCHANGED <<loadingPath, gridVars>>
               ELSE /\ loadingPath' = TRUE
                    /\ RenderResults(result, NullError, isLoading)
    /\ UNCHANGED <<query, status, runAction, executions, nextExecution, lastCall,
                   nextOpen, editorVars, aliasVars, splitVars, sidebarVars>>

\* The dialog rejects.
OpenReject(o, err) ==
    /\ o \in opens /\ o.step = "open"
    /\ OpenCatch(o, err)

\* loadPath resolves: setTables(tableList), setResult(null),
\* setStatus('idle'), setLoadingPath(false); the new array runs the effect
\* of SqlEditor.
LoadPathResolve(o, tableList) ==
    /\ o \in opens /\ o.step = "load" /\ o.kind # "query"
    /\ opens' = opens \ {o}
    /\ TablesEffect(tableList)
    /\ RenderResults(NullResult, error, isLoading)
    /\ status' = "idle"
    /\ loadingPath' = FALSE
    /\ UNCHANGED <<query, runAction, executions, nextExecution, lastCall,
                   nextOpen, aliasVars, splitVars, sidebarVars>>

\* loadQuery resolves: setQuery(sql), setCurrentQueryPath(selected), then
\* loadRecentQueries(), which catches its own errors.
LoadQueryResolve(o, text) ==
    /\ o \in opens /\ o.step = "load" /\ o.kind = "query"
    /\ opens' = opens \ {o}
    /\ query' = text
    /\ UNCHANGED <<status, loadingPath, runAction, executions, nextExecution,
                   lastCall, nextOpen, editorVars, aliasVars, gridVars,
                   splitVars, sidebarVars>>

\* loadPath or loadQuery rejects.
LoadReject(o, err) ==
    /\ o \in opens /\ o.step = "load"
    /\ OpenCatch(o, err)

AppNext ==
    \/ handleMount
    \/ \E value \in EditedTexts : handleChange(value)
    \/ RunButton
    \/ RunAction
    \/ \E e \in executions, queryResult \in QueryResults : ExecuteResolve(e, queryResult)
    \/ \E e \in executions, err \in CommandErrors : ExecuteReject(e, err)
    \/ \E kind \in OpenKinds : handleOpen(kind)
    \/ \E o \in opens, selected \in BOOLEAN : OpenResolve(o, selected)
    \/ \E o \in opens, err \in CommandErrors : OpenReject(o, err)
    \/ \E o \in opens, tableList \in LoadedTableLists : LoadPathResolve(o, tableList)
    \/ \E o \in opens, text \in LoadedQueries : LoadQueryResolve(o, text)
    \/ \E o \in opens, err \in CommandErrors : LoadReject(o, err)
    \/ \E p \in activeProviders :
            nextReq <= MaxAppRequests /\ Complete(p, AppDoc, AppCursor)
    \/ \E r \in inflight : GetSchemaResolve(r, ColsA)
    \/ \E r \in inflight : GetSchemaReject(r)

SpecApp == AppInit /\ [][AppNext]_vars

(***************************************************************************)
(* Claims about App (specification SpecApp).                               *)
(***************************************************************************)
\* C21: whenever a call of executeSql is in flight the results surface is
\* given isLoading = true.
C21_LoadingWhileInFlight == executions # {} => isLoading

\* A file or folder load is in flight: loadPath was called and has not
\* settled.
LoadingInFlight == \E o \in opens : o.kind # "query" /\ o.step = "load"

\* C22: when no execution is in flight isExecuting is false, and when no
\* file or folder load is in flight loadingPath is false; a rejected
\* execution or open attempt ends with an error message set and its
\* operation no longer in flight, and a completion request whose schema
\* fetch rejected resolves with an empty list.
C22_NoLoadingFlagLeftSet ==
    /\ [](/\ executions = {} => ~isExecuting
          /\ ~LoadingInFlight => ~loadingPath
          /\ lastDone.source = "rejected" => lastDone.suggestions = <<>>)
    /\ [][/\ \A e \in executions, err \in CommandErrors :
                ExecuteReject(e, err) => error' = err /\ e \notin executions'
          /\ \A o \in opens, err \in CommandErrors :
                (OpenReject(o, err) \/ LoadReject(o, err))
                    => error' = err /\ o \notin opens'
         ]_vars

\* C22 witness: a file or folder was loaded, a schema fetch rejected and an
\* execution rejected; nothing is in flight, an error message is set and no
\* loading flag is.
C22_Witness ==
    /\ executions = {} /\ opens = {} /\ inflight = {}
    /\ nextExecution > 1 /\ nextOpen > 1
    /\ tables # <<>>
    /\ lastDone.source = "rejected"
    /\ status = "error" /\ error \in CommandErrors
    /\ ~isExecuting /\ ~loadingPath

\* C25: the SQL a run command from the editor passes to executeSql is the
\* query text at that moment.
C25_EditorRunsCurrentText ==
    (lastCall # NoCall /\ lastCall.by = "editor") => lastCall.sql = lastCall.text

\* C26: at most one call of executeSql is in flight, and no step taken while
\* one is in flight or while the query text is blank invokes executeSql.
C26_OneExecutionAtATime ==
    /\ [](Cardinality(executions) <= 1)
    /\ [][(executions # {} \/ IsBlank(query)) => nextExecution' = nextExecution]_vars

\* C27: an error message is set only while no result is held.
C27_ErrorOnlyWithoutResult == error # NullError => result = NullResult

(***************************************************************************)
(* Sidebar.tsx: the table explorer (specification SpecSidebar). The        *)
(* tables are listed; a click on one toggles it, fetching its columns the  *)
(* first time.                                                             *)
(***************************************************************************)
MaxFetches == 3         \* invocations of getSchema by toggleTable in a run

\* The prop `tables`.
SidebarTables == <<"t", "u">>

\* expandedState[tableName] ?? { expanded: false, columns: [], loading: false }
DefaultItem == [expanded |-> FALSE, columns |-> <<>>, loading |-> FALSE]
ItemOf(state, tableName) ==
    IF tableName \in DOMAIN state THEN state[tableName] ELSE DefaultItem

\* prev => ({...prev, [tableName]: item})
SetItem(prev, tableName, item) ==
    [t \in DOMAIN prev \cup {tableName} |-> IF t = tableName THEN item ELSE prev[t]]

SidebarInit ==
    /\ tables = SidebarTables
    /\ mounted = FALSE /\ monacoRef = FALSE
    /\ completionDisposable = 0 /\ hasCleanup = FALSE
    /\ activeProviders = {} /\ closureTables = <<>> /\ nextProvider = 1
    /\ schemaCache = EmptyAliases /\ inflight = {} /\ nextReq = 1
    /\ fetchCalls = 0 /\ lastDone = NoRequest
    /\ AliasIdle /\ GridIdle /\ SplitIdle /\ AppIdle /\ SidebarIdle

\* toggleTable(tableName), the onClick of the table's button, up to its
\* await: `current` is the table's item in the state of the last render.
toggleTable(tableName) ==
    /\ \E i \in 1..Len(tables) : tables[i] = tableName
    /\ \E current \in {ItemOf(expandedState, tableName)} :
          IF ~current.expanded /\ Len(current.columns) = 0
          THEN /\ nextFetch <= MaxFetches
               /\ expandedState' = SetItem(expandedState, tableName,
                                           [current EXCEPT !.loading = TRUE])
               /\ schemaFetches' = schemaFetches \cup
                     {[id |-> nextFetch, tableName |-> tableName, current |-> current]}
               /\ nextFetch' = nextFetch + 1
          ELSE /\ expandedState' = SetItem(expandedState, tableName,
                                           [current EXCEPT !.expanded = ~current.expanded])
               /\ UNCHANGED <<schemaFetches, nextFetch>>
    /\ UNCHANGED <<editorVars, aliasVars, gridVars, splitVars, appVars>>

\* getSchema resolves: the item becomes {expanded: true, columns, loading: false}.
SchemaResolve(f, columns) ==
    /\ f \in schemaFetches
    /\ schemaFetches' = schemaFetches \ {f}
    /\ expandedState' = SetItem(expandedState, f.tableName,
                                [expanded |-> TRUE, columns |-> columns, loading |-> FALSE])
    /\ UNCHANGED <<nextFetch, editorVars, aliasVars, gridVars, splitVars, appVars>>

\* getSchema rejects: the item becomes {...current, loading: false}, with the
\* `current` the call of toggleTable started with.
SchemaReject(f) ==
    /\ f \in schemaFetches
    /\ schemaFetches' = schemaFetches \ {f}
    /\ expandedState' = SetItem(expandedState, f.tableName,
                                [f.current EXCEPT !.loading = FALSE])
    /\ UNCHANGED <<nextFetch, editorVars, aliasVars, gridVars, splitVars, appVars>>

SidebarNext ==
    \/ \E i \in 1..Len(tables) : toggleTable(tables[i])
    \/ \E f \in schemaFetches, columns \in SchemaVersions : SchemaResolve(f, columns)
    \/ \E f \in schemaFetches : SchemaReject(f)

SpecSidebar == SidebarInit /\ [][SidebarNext]_vars

(***************************************************************************)
(* Claims about the table explorer (specification SpecSidebar).            *)
(***************************************************************************)
\* The getSchema calls in flight for a table.
FetchesOf(fetches, tableName) == {f \in fetches : f.tableName = tableName}

\* C30: a step starts a schema fetch for a table only if the table is
\* collapsed, has no loaded columns and has no fetch in flight; a fetch that
\* resolves leaves the table expanded with the fetched columns and not
\* loading; a fetch that rejects leaves it collapsed and not loading.
C30_ToggleFetchesOnce ==
    [][\A i \in 1..Len(tables) :
         /\ (FetchesOf(schemaFetches', tables[i]) \ FetchesOf(schemaFetches, tables[i]) # {})
              => /\ ~ItemOf(expandedState, tables[i]).expanded
                 /\ ItemOf(expandedState, tables[i]).columns = <<>>
                 /\ FetchesOf(schemaFetches, tables[i]) = {}
         /\ \A f \in FetchesOf(schemaFetches, tables[i]) :
              /\ \A columns \in SchemaVersions :
                    SchemaResolve(f, columns) =>
                        expandedState'[tables[i]] =
                            [expanded |-> TRUE, columns |-> columns, loading |-> FALSE]
              /\ SchemaReject(f) =>
                    /\ ~expandedState'[tables[i]].expanded
                    /\ ~expandedState'[tables[i]].loading
      ]_vars

====
